---- MODULE Spec2Model ----
(***************************************************************************)
(* Reconciliation of a CA (inspector) daily work record against the        *)
(* Contractor's record: extract.py reconcile_dwrs (DWRReport inputs) and   *)
(* reconcile.py reconcile_dwrs / match_items (ParsedDWR inputs).           *)
(*                                                                         *)
(* Representation                                                          *)
(*   str            a sequence of one-character strings                    *)
(*   Optional[T]    <<>> for None, <<v>> for a value v                     *)
(*   float value    a natural number of value units (the classifier only   *)
(*                  uses ratios of values, so the unit cancels)            *)
(*   variance_pct   a reduced fraction [num, den] of percent               *)
(***************************************************************************)
EXTENDS Integers, Sequences, FiniteSets, TLC

\* ------------------------------------------------------------------------
\* Bounds
\* ------------------------------------------------------------------------
MaxItems == 3
MaxVal == 42

\* ------------------------------------------------------------------------
\* Characters and Python str primitives
\* ------------------------------------------------------------------------
Lowers == <<"a","b","c","d","e","f","g","h","i","j","k","l","m",
            "n","o","p","q","r","s","t","u","v","w","x","y","z">>
Uppers == <<"A","B","C","D","E","F","G","H","I","J","K","L","M",
            "N","O","P","Q","R","S","T","U","V","W","X","Y","Z">>
Digits == <<"0","1","2","3","4","5","6","7","8","9">>

IndexIn(c, tbl) == CHOOSE i \in 1..Len(tbl) : tbl[i] = c
IsLower(c) == \E i \in 1..Len(Lowers) : Lowers[i] = c
IsUpper(c) == \E i \in 1..Len(Uppers) : Uppers[i] = c
IsDigit(c) == \E i \in 1..Len(Digits) : Digits[i] = c
IsSpace(c) == c \in {" ", "\t"}

\* code point of a character (str comparison is by code point)
Ord(c) ==
    IF IsUpper(c) THEN 64 + IndexIn(c, Uppers)
    ELSE IF IsLower(c) THEN 96 + IndexIn(c, Lowers)
    ELSE IF IsDigit(c) THEN 47 + IndexIn(c, Digits)
    ELSE IF c = " " THEN 32
    ELSE IF c = "\t" THEN 9
    ELSE IF c = "-" THEN 45
    ELSE IF c = "/" THEN 47
    ELSE IF c = "_" THEN 95
    ELSE 46

ToLower(c) == IF IsUpper(c) THEN Lowers[IndexIn(c, Uppers)] ELSE c
ToUpper(c) == IF IsLower(c) THEN Uppers[IndexIn(c, Lowers)] ELSE c

lower(s) == [i \in 1..Len(s) |-> ToLower(s[i])]
upper(s) == [i \in 1..Len(s) |-> ToUpper(s[i])]

RECURSIVE lstrip(_)
lstrip(s) == IF s # <<>> /\ IsSpace(Head(s)) THEN lstrip(Tail(s)) ELSE s

RECURSIVE rstrip(_)
rstrip(s) ==
    IF s # <<>> /\ IsSpace(s[Len(s)]) THEN rstrip(SubSeq(s, 1, Len(s) - 1)) ELSE s

strip(s) == rstrip(lstrip(s))

\* s.replace(old, new) for a non-empty old: leftmost, non-overlapping
RECURSIVE replace(_, _, _)
replace(s, old, new) ==
    IF Len(s) < Len(old) THEN s
    ELSE IF SubSeq(s, 1, Len(old)) = old
         THEN new \o replace(SubSeq(s, Len(old) + 1, Len(s)), old, new)
         ELSE <<Head(s)>> \o replace(Tail(s), old, new)

\* s.split(): the maximal runs of non-whitespace characters
RECURSIVE split(_)
split(s) ==
    LET t == lstrip(s)
        n == IF \E i \in 1..Len(t) : IsSpace(t[i])
             THEN (CHOOSE i \in 1..Len(t) :
                      IsSpace(t[i]) /\ \A j \in 1..(i - 1) : ~IsSpace(t[j])) - 1
             ELSE Len(t)
    IN IF t = <<>> THEN <<>>
       ELSE <<SubSeq(t, 1, n)>> \o split(SubSeq(t, n + 1, Len(t)))

isdigit(s) == s # <<>> /\ \A i \in 1..Len(s) : IsDigit(s[i])

\* a < b for Python str
RECURSIVE StrLess(_, _)
StrLess(a, b) ==
    IF b = <<>> THEN FALSE
    ELSE IF a = <<>> THEN TRUE
    ELSE IF Head(a) = Head(b) THEN StrLess(Tail(a), Tail(b))
    ELSE Ord(Head(a)) < Ord(Head(b))

\* sorted(keys) for a set of str
RECURSIVE sorted(_)
sorted(S) ==
    IF S = {} THEN <<>>
    ELSE LET m == CHOOSE x \in S : \A y \in S \ {x} : StrLess(x, y)
         IN <<m>> \o sorted(S \ {m})

\* ------------------------------------------------------------------------
\* Optional values and dicts
\* ------------------------------------------------------------------------
None == <<>>
Some(v) == <<v>>
\* Python truthiness of an Optional[float] and of an Optional[str]
TruthyNum(o) == o # None /\ o[1] # 0
TruthyStr(o) == o # None /\ o[1] # <<>>

\* a dict is a sequence of <<key, value>> pairs in insertion order
DictKeys(d) == {d[i][1] : i \in 1..Len(d)}
DictGet(d, k) == LET i == CHOOSE i \in 1..Len(d) : d[i][1] = k IN d[i][2]
\* d[k] = v: an existing key keeps its position
DictPut(d, k, v) ==
    IF k \in DictKeys(d)
    THEN [i \in 1..Len(d) |-> IF d[i][1] = k THEN <<k, v>> ELSE d[i]]
    ELSE Append(d, <<k, v>>)

\* ------------------------------------------------------------------------
\* Fractions of percent
\* ------------------------------------------------------------------------
Abs(x) == IF x < 0 THEN -x ELSE x

RECURSIVE Gcd(_, _)
Gcd(a, b) == IF b = 0 THEN a ELSE Gcd(b, a % b)

Frac(n, d) == LET g == Gcd(Abs(n), d) IN [num |-> n \div g, den |-> d \div g]

\* round(n/d, 1) for n >= 0, d > 0: nearest tenth, ties to the even tenth
Round1(n, d) ==
    LET q == (10 * n) \div d
        r == (10 * n) % d
        t == IF 2 * r > d \/ (2 * r = d /\ q % 2 = 1) THEN q + 1 ELSE q
    IN Frac(t, 10)

\* dict comprehension / successive assignment over a sequence of pairs
RECURSIVE DictFromPairs(_)
DictFromPairs(ps) ==
    IF ps = <<>> THEN <<>>
    ELSE LET last == ps[Len(ps)]
         IN DictPut(DictFromPairs(SubSeq(ps, 1, Len(ps) - 1)), last[1], last[2])

\* ------------------------------------------------------------------------
\* extract.py: classifier and normalizers nested in reconcile_dwrs
\* ------------------------------------------------------------------------
VARIANCE_THRESHOLD == 5

\* calc_variance without the zero-baseline return: it divides whenever the two
\* values are not both zero
calc_variance_divides_unguarded(ca_val, con_val) ==
    ~(ca_val = 0 /\ con_val = 0)

\* the path of calc_variance on which ca_val is the divisor
calc_variance_divides(ca_val, con_val) ==
    ~(ca_val = 0 /\ con_val = 0) /\ ~(ca_val = 0)

\* calc_variance with the zero-baseline variance scaled by the claim
calc_variance_scaled(ca_val, con_val) ==
    IF ca_val = 0 /\ con_val = 0 THEN <<Frac(0, 1), "MATCH">>
    ELSE IF ca_val = 0 THEN <<Frac(100 * con_val, 1), "FLAG">>
    ELSE LET n == Abs(con_val - ca_val) * 100
         IN <<Round1(n, ca_val),
              IF n > VARIANCE_THRESHOLD * ca_val THEN "FLAG" ELSE "MATCH">>

\* calc_variance flagging at the threshold itself
calc_variance_strict(ca_val, con_val) ==
    IF ca_val = 0 /\ con_val = 0 THEN <<Frac(0, 1), "MATCH">>
    ELSE IF ca_val = 0 THEN <<Frac(100, 1), "FLAG">>
    ELSE LET n == Abs(con_val - ca_val) * 100
         IN <<Round1(n, ca_val),
              IF n >= VARIANCE_THRESHOLD * ca_val THEN "FLAG" ELSE "MATCH">>

calc_variance(ca_val, con_val) ==
    IF ca_val = 0 /\ con_val = 0 THEN <<Frac(0, 1), "MATCH">>
    ELSE IF ca_val = 0 THEN <<Frac(100, 1), "FLAG">>
    ELSE LET n == Abs(con_val - ca_val) * 100
         IN <<Round1(n, ca_val),
              IF n > VARIANCE_THRESHOLD * ca_val THEN "FLAG" ELSE "MATCH">>

normalize_classification(name) ==
    replace(replace(strip(lower(name)), <<"/">>, <<" ">>), <<" ", " ">>, <<" ">>)

\* re.sub(r'[^A-Z0-9 ]', '', s)
KeepUpperDigitSpace(s) ==
    SelectSeq(s, LAMBDA c : IsUpper(c) \/ IsDigit(c) \/ c = " ")

normalize_equip(name) ==
    strip(KeepUpperDigitSpace(replace(strip(upper(name)), <<" ", " ">>, <<" ">>)))

\* equip_match_key without the asset-number rule
equip_match_key_first(name) ==
    LET clean == KeepUpperDigitSpace(strip(upper(name)))
        parts == split(clean)
    IN IF Len(parts) >= 1 THEN parts[1] ELSE clean

equip_match_key(name) ==
    LET clean == KeepUpperDigitSpace(strip(upper(name)))
        parts == split(clean)
    IN IF Len(parts) >= 2 /\ isdigit(parts[1])
       THEN parts[1] \o <<" ">> \o parts[2]
       ELSE IF Len(parts) >= 1 THEN parts[1]
       ELSE clean

MatDesc(item) ==
    IF TruthyStr(item.material_description)
    THEN item.material_description[1] ELSE item.material

normalize_mat(item) == strip(lower(MatDesc(item)))

\* ------------------------------------------------------------------------
\* reconcile.py: classifier and normalizer
\* ------------------------------------------------------------------------
\* re.sub(r'\s+', ' ', s)
RECURSIVE CollapseSpace(_)
CollapseSpace(s) ==
    IF s = <<>> THEN <<>>
    ELSE IF IsSpace(Head(s)) THEN <<" ">> \o CollapseSpace(lstrip(s))
    ELSE <<Head(s)>> \o CollapseSpace(Tail(s))

normalize_description(desc) == CollapseSpace(strip(lower(desc)))

calculate_variance_divides(ca_value, contractor_value) ==
    ~(ca_value = 0 /\ contractor_value = 0) /\ ~(ca_value = 0)

\* calculate_variance returning the magnitude of the deviation
calculate_variance_unsigned(ca_value, contractor_value) ==
    IF ca_value = 0 /\ contractor_value = 0 THEN <<Frac(0, 1), "MATCH">>
    ELSE IF ca_value = 0 THEN <<Frac(100, 1), "FLAG">>
    ELSE LET n == Abs(contractor_value - ca_value) * 100
         IN IF n <= 5 * ca_value
            THEN <<Frac(n, ca_value), "MATCH">>
            ELSE <<Frac(n, ca_value), "FLAG">>

calculate_variance(ca_value, contractor_value) ==
    IF ca_value = 0 /\ contractor_value = 0 THEN <<Frac(0, 1), "MATCH">>
    ELSE IF ca_value = 0 THEN <<Frac(100, 1), "FLAG">>
    ELSE LET n == (contractor_value - ca_value) * 100
         IN IF Abs(n) <= 5 * ca_value
            THEN <<Frac(n, ca_value), "MATCH">>
            ELSE <<Frac(n, ca_value), "FLAG">>

\* ------------------------------------------------------------------------
\* Input pools: the line items the two records are drawn from
\* ------------------------------------------------------------------------
DriverSpaced ==
    <<"D","r","i","v","e","r"," ","/"," ","T","e","a","m","s","t","e","r">>
DriverTight ==
    <<"D","r","i","v","e","r","/","T","e","a","m","s","t","e","r">>
ForemanName ==
    <<"F","o","r","e","m","a","n">>
ForemanShout ==
    <<"F","O","R","E","M","A","N"," ">>
IntlLong ==
    <<"9","4"," ","I","N","T","L"," ","4","9","0","0"," ","T","A","N","D","E","M"," ","C","R","A","S","H">>
IntlShort ==
    <<"9","4"," ","I","N","T","L">>
IntlLower ==
    <<"9","4"," ","i","n","t","l">>
IntlOther ==
    <<"9","5"," ","I","N","T","L">>
FordName ==
    <<"9","4"," ","F","O","R","D">>
TcName ==
    <<"T","C","-","5","4","s">>
DashName ==
    <<"-"," ","-">>
GravelName ==
    <<"G","r","a","v","e","l">>
GravelLow ==
    <<"g","r","a","v","e","l"," ">>
PipeName ==
    <<"P","i","p","e">>
PvcName ==
    <<"P","V","C"," ","1","0","0">>
PvcWide ==
    <<"p","v","c"," "," ","1","0","0">>
OperatorName ==
    <<"O","p","e","r","a","t","o","r">>
ForemanLow ==
    <<"f","o","r","e","m","a","n">>
BackhoeName ==
    <<"1","0"," ","C","A","T"," ","4","2","0"," ","B","A","C","K","H","O","E">>
GravelDesc ==
    <<"G","r","a","v","e","l"," ","-"," ","1","9","m","m">>
GravelDescWide ==
    <<"g","r","a","v","e","l"," "," ","-"," "," ","1","9","m","m">>

LabourLineItem(c, h) == [classification |-> c, total_man_hours |-> h]
EquipmentLineItem(n, h) == [equipment_name |-> n, hours_worked |-> h]
MaterialLineItem(m, d, u, q) ==
    [material |-> m, material_description |-> d, units |-> u, quantity |-> q]
ParsedLineItem(c, d, v, u) ==
    [category |-> c, description |-> d, value |-> v, unit |-> u]

LabourPool ==
    { LabourLineItem(DriverSpaced, 8), LabourLineItem(DriverTight, 8),
      LabourLineItem(ForemanName, 20), LabourLineItem(ForemanShout, 21),
      LabourLineItem(ForemanName, 0) }
EquipmentPool ==
    { EquipmentLineItem(IntlLong, 4), EquipmentLineItem(IntlShort, 4),
      EquipmentLineItem(IntlOther, 5), EquipmentLineItem(FordName, 6),
      EquipmentLineItem(TcName, 0), EquipmentLineItem(DashName, 1),
      EquipmentLineItem(IntlLower, 7) }
MaterialPool ==
    { MaterialLineItem(GravelName, None, None, None),
      MaterialLineItem(GravelLow, None, Some("tonne"), Some(10)),
      MaterialLineItem(PipeName, Some(PvcName), Some("m"), Some(20)),
      MaterialLineItem(PipeName, Some(PvcWide), Some("m"), Some(21)) }
ParsedPool ==
    { ParsedLineItem("Labour", OperatorName, 8, "man-hours"),
      ParsedLineItem("Labour", ForemanName, 20, "man-hours"),
      ParsedLineItem("Labour", ForemanLow, 22, "man-hours"),
      ParsedLineItem("Equipment", BackhoeName, 8, "hours"),
      ParsedLineItem("Equipment", IntlShort, 0, "hours"),
      ParsedLineItem("Material", GravelDesc, 10, "tonne"),
      ParsedLineItem("Material", GravelDescWide, 0, "") }

\* DWRReport / ParsedDWR restricted to the three line-item lists
EmptyRecord == [labour |-> <<>>, equipment |-> <<>>, materials |-> <<>>]

\* ParsedDWR header values: the identifying fields parse_dwr_markdown fills,
\* each the empty string when the markdown has no such line
ParsedHeader(rid, by, date, co) ==
    [record_id |-> rid, created_by |-> by, dwr_date |-> date, change_order |-> co]
CaHeaderPool ==
    { ParsedHeader("DWR-7", "Inspector A", d, co) :
          d \in {"", "2021-08-05"}, co \in {"", "CO-21"} }
    \cup { ParsedHeader("", "", "", "") }
ContractorHeaderPool ==
    { ParsedHeader("DWR-9", "Foreman B", "2021-08-06", "CO-7"),
      ParsedHeader("", "", "", "") }

\* a ParsedDWR of header h and the item lists of b
ParsedDWR(h, b) ==
    [record_id |-> h.record_id, created_by |-> h.created_by,
     dwr_date |-> h.dwr_date, change_order |-> h.change_order,
     labour |-> b.labour, equipment |-> b.equipment, materials |-> b.materials]

\* the lists of n items of a pool
ListsOf(n, Pool) == [1..n -> Pool]

\* the lengths of the six lists of a pair of records: at most n items in all
PairShapes(n) ==
    {sh \in [1..6 -> 0..n] : sh[1] + sh[2] + sh[3] + sh[4] + sh[5] + sh[6] <= n}

ParsedOf(cat) == {y \in ParsedPool : y.category = cat}

\* ------------------------------------------------------------------------
\* extract.py reconcile_dwrs: the three category passes
\* ------------------------------------------------------------------------
ReconRow(cat, desc, ca, con, unit, var, st) ==
    [category |-> cat, description |-> desc, ca_value |-> ca,
     contractor_value |-> con, unit |-> unit, variance_pct |-> var,
     status |-> st]

LabourDict(labour) ==
    DictFromPairs([i \in 1..Len(labour) |->
        <<normalize_classification(labour[i].classification), labour[i]>>])

\* LabourRow scoring a CA-only item against a Contractor value of 0
LabourRowZeroFill(ca_labour, con_labour, key) ==
    IF key \in DictKeys(ca_labour) /\ key \in DictKeys(con_labour)
    THEN LET ca_item == DictGet(ca_labour, key)
             con_item == DictGet(con_labour, key)
             cv == calc_variance(ca_item.total_man_hours, con_item.total_man_hours)
         IN ReconRow("Labour", ca_item.classification,
                     Some(ca_item.total_man_hours), Some(con_item.total_man_hours),
                     "man-hours", Some(cv[1]), cv[2])
    ELSE IF key \in DictKeys(ca_labour)
    THEN LET ca_item == DictGet(ca_labour, key)
         IN ReconRow("Labour", ca_item.classification,
                     Some(ca_item.total_man_hours), None, "man-hours",
                     Some(calc_variance(ca_item.total_man_hours, 0)[1]), "MISSING")
    ELSE LET con_item == DictGet(con_labour, key)
         IN ReconRow("Labour", con_item.classification,
                     None, Some(con_item.total_man_hours), "man-hours", None, "NEW")

LabourRow(ca_labour, con_labour, key) ==
    IF key \in DictKeys(ca_labour) /\ key \in DictKeys(con_labour)
    THEN LET ca_item == DictGet(ca_labour, key)
             con_item == DictGet(con_labour, key)
             cv == calc_variance(ca_item.total_man_hours, con_item.total_man_hours)
         IN ReconRow("Labour", ca_item.classification,
                     Some(ca_item.total_man_hours), Some(con_item.total_man_hours),
                     "man-hours", Some(cv[1]), cv[2])
    ELSE IF key \in DictKeys(ca_labour)
    THEN LET ca_item == DictGet(ca_labour, key)
         IN ReconRow("Labour", ca_item.classification,
                     Some(ca_item.total_man_hours), None, "man-hours", None, "MISSING")
    ELSE LET con_item == DictGet(con_labour, key)
         IN ReconRow("Labour", con_item.classification,
                     None, Some(con_item.total_man_hours), "man-hours", None, "NEW")

\* KeyOrder over the CA keys only
KeyOrderCaOnly(ca_dict, con_dict) == sorted(DictKeys(ca_dict))

\* KeyOrder in dict order: the CA keys, then the remaining Contractor keys
KeyOrderInsertion(ca_dict, con_dict) ==
    [i \in 1..Len(ca_dict) |-> ca_dict[i][1]]
    \o SelectSeq([i \in 1..Len(con_dict) |-> con_dict[i][1]],
                 LAMBDA k : k \notin DictKeys(ca_dict))

\* the order in which a pass visits the keys of both sides
KeyOrder(ca_dict, con_dict) == sorted(DictKeys(ca_dict) \cup DictKeys(con_dict))

LabourPass(ca, con) ==
    LET ca_labour == LabourDict(ca.labour)
        con_labour == LabourDict(con.labour)
        keys == KeyOrder(ca_labour, con_labour)
    IN [i \in 1..Len(keys) |-> LabourRow(ca_labour, con_labour, keys[i])]

EquipFull(equipment) ==
    DictFromPairs([i \in 1..Len(equipment) |->
        <<normalize_equip(equipment[i].equipment_name), equipment[i]>>])

\* match key -> <<full normalized name, item>>, filled in the order of the
\* full-name dict
EquipByKey(equipment) ==
    LET full == EquipFull(equipment)
    IN DictFromPairs([i \in 1..Len(full) |->
           <<equip_match_key(full[i][1]), <<full[i][1], full[i][2]>>>>])

\* EquipmentRow labelling a Contractor-only item like a CA-only one
EquipmentRowOneLabel(ca_by_key, con_by_key, key) ==
    IF key \in DictKeys(ca_by_key) /\ key \in DictKeys(con_by_key)
    THEN LET ca_item == DictGet(ca_by_key, key)[2]
             con_item == DictGet(con_by_key, key)[2]
             cv == calc_variance(ca_item.hours_worked, con_item.hours_worked)
             display_name ==
                 IF Len(ca_item.equipment_name) >= Len(con_item.equipment_name)
                 THEN ca_item.equipment_name ELSE con_item.equipment_name
         IN ReconRow("Equipment", display_name,
                     Some(ca_item.hours_worked), Some(con_item.hours_worked),
                     "hours", Some(cv[1]), cv[2])
    ELSE IF key \in DictKeys(ca_by_key)
    THEN LET ca_item == DictGet(ca_by_key, key)[2]
         IN ReconRow("Equipment", ca_item.equipment_name,
                     Some(ca_item.hours_worked), None, "hours", None, "MISSING")
    ELSE LET con_item == DictGet(con_by_key, key)[2]
         IN ReconRow("Equipment", con_item.equipment_name,
                     None, Some(con_item.hours_worked), "hours", None, "MISSING")

\* EquipmentRow giving an equal-length tie to the Contractor name
EquipmentRowStrictlyLonger(ca_by_key, con_by_key, key) ==
    IF key \in DictKeys(ca_by_key) /\ key \in DictKeys(con_by_key)
    THEN LET ca_item == DictGet(ca_by_key, key)[2]
             con_item == DictGet(con_by_key, key)[2]
             cv == calc_variance(ca_item.hours_worked, con_item.hours_worked)
             display_name ==
                 IF Len(ca_item.equipment_name) > Len(con_item.equipment_name)
                 THEN ca_item.equipment_name ELSE con_item.equipment_name
         IN ReconRow("Equipment", display_name,
                     Some(ca_item.hours_worked), Some(con_item.hours_worked),
                     "hours", Some(cv[1]), cv[2])
    ELSE IF key \in DictKeys(ca_by_key)
    THEN LET ca_item == DictGet(ca_by_key, key)[2]
         IN ReconRow("Equipment", ca_item.equipment_name,
                     Some(ca_item.hours_worked), None, "hours", None, "MISSING")
    ELSE LET con_item == DictGet(con_by_key, key)[2]
         IN ReconRow("Equipment", con_item.equipment_name,
                     None, Some(con_item.hours_worked), "hours", None, "NEW")

EquipmentRow(ca_by_key, con_by_key, key) ==
    IF key \in DictKeys(ca_by_key) /\ key \in DictKeys(con_by_key)
    THEN LET ca_item == DictGet(ca_by_key, key)[2]
             con_item == DictGet(con_by_key, key)[2]
             cv == calc_variance(ca_item.hours_worked, con_item.hours_worked)
             display_name ==
                 IF Len(ca_item.equipment_name) >= Len(con_item.equipment_name)
                 THEN ca_item.equipment_name ELSE con_item.equipment_name
         IN ReconRow("Equipment", display_name,
                     Some(ca_item.hours_worked), Some(con_item.hours_worked),
                     "hours", Some(cv[1]), cv[2])
    ELSE IF key \in DictKeys(ca_by_key)
    THEN LET ca_item == DictGet(ca_by_key, key)[2]
         IN ReconRow("Equipment", ca_item.equipment_name,
                     Some(ca_item.hours_worked), None, "hours", None, "MISSING")
    ELSE LET con_item == DictGet(con_by_key, key)[2]
         IN ReconRow("Equipment", con_item.equipment_name,
                     None, Some(con_item.hours_worked), "hours", None, "NEW")

EquipmentPass(ca, con) ==
    LET ca_by_key == EquipByKey(ca.equipment)
        con_by_key == EquipByKey(con.equipment)
        keys == KeyOrder(ca_by_key, con_by_key)
    IN [i \in 1..Len(keys) |-> EquipmentRow(ca_by_key, con_by_key, keys[i])]

MatDict(materials) ==
    DictFromPairs([i \in 1..Len(materials) |->
        <<normalize_mat(materials[i]), materials[i]>>])

\* item.units or "EA"
UnitsOrEA(item) ==
    IF item.units # None /\ item.units[1] # "" THEN item.units[1] ELSE "EA"

\* item.quantity or 0
QuantityOr0(item) == IF TruthyNum(item.quantity) THEN item.quantity[1] ELSE 0

MaterialRow(ca_mats, con_mats, key) ==
    IF key \in DictKeys(ca_mats) /\ key \in DictKeys(con_mats)
    THEN LET ca_item == DictGet(ca_mats, key)
             con_item == DictGet(con_mats, key)
             ca_val == QuantityOr0(ca_item)
             con_val == QuantityOr0(con_item)
             cv == calc_variance(ca_val, con_val)
         IN ReconRow("Material", MatDesc(ca_item), Some(ca_val), Some(con_val),
                     UnitsOrEA(ca_item), Some(cv[1]), cv[2])
    ELSE IF key \in DictKeys(ca_mats)
    THEN LET ca_item == DictGet(ca_mats, key)
         IN ReconRow("Material", MatDesc(ca_item), ca_item.quantity, None,
                     UnitsOrEA(ca_item), None, "MISSING")
    ELSE LET con_item == DictGet(con_mats, key)
         IN ReconRow("Material", MatDesc(con_item), None, con_item.quantity,
                     UnitsOrEA(con_item), None, "NEW")

MaterialPass(ca, con) ==
    LET ca_mats == MatDict(ca.materials)
        con_mats == MatDict(con.materials)
        keys == KeyOrder(ca_mats, con_mats)
    IN [i \in 1..Len(keys) |-> MaterialRow(ca_mats, con_mats, keys[i])]

\* the whole of extract.py reconcile_dwrs
extract_reconcile_dwrs(ca, con) ==
    LabourPass(ca, con) \o EquipmentPass(ca, con) \o MaterialPass(ca, con)

\* ------------------------------------------------------------------------
\* reconcile.py match_items and reconcile_dwrs
\* ------------------------------------------------------------------------
ParsedLookup(items) ==
    DictFromPairs([i \in 1..Len(items) |->
        <<normalize_description(items[i].description), items[i]>>])

\* first loop: one row per CA key, in the order of ca_lookup
CaRow(contractor_lookup, ca_key, ca_item) ==
    IF ca_key \in DictKeys(contractor_lookup)
    THEN LET con_item == DictGet(contractor_lookup, ca_key)
             cv == calculate_variance(ca_item.value, con_item.value)
         IN ReconRow(ca_item.category, ca_item.description, Some(ca_item.value),
                     Some(con_item.value), ca_item.unit, Some(cv[1]), cv[2])
    ELSE ReconRow(ca_item.category, ca_item.description, Some(ca_item.value),
                  None, ca_item.unit, None, "MISSING")

match_items(ca_items, contractor_items) ==
    LET ca_lookup == ParsedLookup(ca_items)
        contractor_lookup == ParsedLookup(contractor_items)
        matched_contractor_keys == DictKeys(ca_lookup) \cap DictKeys(contractor_lookup)
        new_entries == SelectSeq(contractor_lookup,
                           LAMBDA e : e[1] \notin matched_contractor_keys)
    IN [i \in 1..Len(ca_lookup) |->
           CaRow(contractor_lookup, ca_lookup[i][1], ca_lookup[i][2])]
       \o [i \in 1..Len(new_entries) |->
           ReconRow(new_entries[i][2].category, new_entries[i][2].description,
                    None, Some(new_entries[i][2].value), new_entries[i][2].unit,
                    None, "NEW")]

\* a or b on two strings
StrOr(a, b) == IF a # "" THEN a ELSE b

\* reconcile_dwrs taking change_order and work_date from the Contractor
\* record first
reconcile_dwrs_contractor_first(ca, con) ==
    [change_order |-> StrOr(con.change_order, ca.change_order),
     work_date |-> StrOr(con.dwr_date, ca.dwr_date),
     ca_record_id |-> ca.record_id,
     contractor_record_id |-> con.record_id,
     ca_created_by |-> ca.created_by,
     contractor_created_by |-> con.created_by,
     items |-> match_items(ca.labour, con.labour)
               \o match_items(ca.equipment, con.equipment)
               \o match_items(ca.materials, con.materials)]

reconcile_reconcile_dwrs(ca, con) ==
    [change_order |-> StrOr(ca.change_order, con.change_order),
     work_date |-> StrOr(ca.dwr_date, con.dwr_date),
     ca_record_id |-> ca.record_id,
     contractor_record_id |-> con.record_id,
     ca_created_by |-> ca.created_by,
     contractor_created_by |-> con.created_by,
     items |-> match_items(ca.labour, con.labour)
               \o match_items(ca.equipment, con.equipment)
               \o match_items(ca.materials, con.materials)]

\* ------------------------------------------------------------------------
\* extract.py main: the markdown files and how they are paired
\* ------------------------------------------------------------------------
\* sub in s
Contains(sub, s) ==
    \E i \in 0..(Len(s) - Len(sub)) : SubSeq(s, i + 1, i + Len(sub)) = sub

\* Path.stem for a name with a suffix: the name up to its last dot
Stem(name) ==
    LET dots == {i \in 2..Len(name) : name[i] = "."}
    IN IF dots = {} THEN name
       ELSE SubSeq(name, 1, (CHOOSE i \in dots : \A j \in dots : j <= i) - 1)

\* re.search(r'CO-(\d+)', s): None, or the digits of the leftmost match,
\* taken greedily
co_search(s) ==
    LET starts == {i \in 1..(Len(s) - 3) :
                      SubSeq(s, i, i + 2) = <<"C","O","-">> /\ IsDigit(s[i + 3])}
    IN IF starts = {} THEN None
       ELSE LET i == CHOOSE x \in starts : \A y \in starts : x <= y
                j == CHOOSE x \in (i + 3)..Len(s) :
                        /\ \A k \in (i + 3)..x : IsDigit(s[k])
                        /\ (x = Len(s) \/ ~IsDigit(s[x + 1]))
            IN Some(SubSeq(s, i + 3, j))

\* co_match of a CA file: "CO-<digits>" or None
co_match(ca_file) ==
    LET m == co_search(Stem(ca_file))
    IN IF m = None THEN None ELSE Some(<<"C","O","-">> \o m[1])

IsCaName(name) ==
    \/ Contains(<<"(","C","A",",">>, name)
    \/ Contains(<<"(","C","A"," ">>, name)
    \/ Contains(<<"_","_","C","A","_","_">>, name)
    \/ Contains(<<"_","C","A","_">>, name)
IsContractorName(name) ==
    ~IsCaName(name) /\ Contains(<<"C","o","n","t","r","a","c","t","o","r">>, name)

\* the first Contractor file whose name contains the key, or None
contractor_file_for(key, files) ==
    LET hits == {i \in 1..Len(files) : Contains(key, files[i])}
    IN IF hits = {} THEN None
       ELSE Some(files[CHOOSE i \in hits : \A j \in hits : i <= j])

CaFile21 ==
    <<"a","_","_","C","A","_","_","C","O","-","2","1",".","m","d">>
CaFile2 ==
    <<"b","_","_","C","A","_","_","C","O","-","2",".","m","d">>
CaFileNoCo ==
    <<"c","_","_","C","A","_","_","x",".","m","d">>
ConFile21 ==
    <<"d","_","_","C","o","n","t","r","a","c","t","o","r","_","_","C","O","-","2","1",".","m","d">>
ConFile7 ==
    <<"e","_","_","C","o","n","t","r","a","c","t","o","r","_","_","C","O","-","7",".","m","d">>
FilePool == {CaFile21, CaFile2, CaFileNoCo, ConFile21, ConFile7}

\* ------------------------------------------------------------------------
\* extract.py extract_dwr_with_llm: what the model can answer
\* ------------------------------------------------------------------------
max_retries == 3

DWRHeader(rid, date) == [record_id |-> rid, dwr_date |-> date]

\* the dict json.loads gives; header is None when the key is missing
ResponseData(h, lab, eq, mat) ==
    [header |-> h, labour |-> lab, equipment |-> eq, materials |-> mat]

DataSeven ==
    ResponseData(Some(DWRHeader("DWR-7", "05-Aug-21")),
                 <<LabourLineItem(ForemanName, 20)>>, <<>>, <<>>)
DataSevenAgain ==
    ResponseData(Some(DWRHeader("DWR-7", "05-Aug-21")),
                 <<LabourLineItem(ForemanName, 21)>>,
                 <<EquipmentLineItem(IntlShort, 4)>>, <<>>)
DataNine ==
    ResponseData(Some(DWRHeader("DWR-9", "06-Aug-21")),
                 <<LabourLineItem(ForemanShout, 21)>>, <<>>,
                 <<MaterialLineItem(GravelName, None, None, None)>>)
DataTooManyHours ==
    ResponseData(Some(DWRHeader("DWR-7", "05-Aug-21")),
                 <<LabourLineItem(ForemanName, 101)>>, <<>>, <<>>)
DataNoHeader ==
    ResponseData(None, <<LabourLineItem(ForemanName, 20)>>, <<>>, <<>>)
DataPool ==
    {DataSeven, DataSevenAgain, DataNine, DataTooManyHours, DataNoHeader}

\* DWRReport(**response_data) raises no ValidationError
SchemaValid(d) ==
    /\ d.header # None
    /\ \A i \in 1..Len(d.labour) :
          /\ Len(d.labour[i].classification) >= 1
          /\ d.labour[i].total_man_hours <= 100
    /\ \A i \in 1..Len(d.equipment) :
          /\ Len(d.equipment[i].equipment_name) >= 1
          /\ d.equipment[i].hours_worked <= 24
    /\ \A i \in 1..Len(d.materials) : Len(d.materials[i].material) >= 1

\* the validated DWRReport built from the dict
DWRReport(d) ==
    [header |-> d.header[1], labour |-> d.labour, equipment |-> d.equipment,
     materials |-> d.materials]

\* one answer of ollama.chat: the call raised, or it returned text that is
\* not JSON, or text that is the JSON of a dict
LlmResponse(kind, data) == [kind |-> kind, data |-> data]
ChatError == LlmResponse("error", None)
NotJson == LlmResponse("text", None)
JsonOf(d) == LlmResponse("json", Some(d))

\* ------------------------------------------------------------------------
\* extract.py DatabaseManager: tables and statements
\* ------------------------------------------------------------------------
EmptyDb ==
    [dwr_headers |-> <<>>, labour_items |-> <<>>, equipment_items |-> <<>>,
     material_items |-> <<>>, reconciliation |-> <<>>]

ItemTables == <<"labour_items", "equipment_items", "material_items">>

Statement(op, table, rid, row) ==
    [op |-> op, table |-> table, record_id |-> rid, row |-> row]

HeaderRow(h, source_type, pdf_source) ==
    [record_id |-> h.record_id, dwr_date |-> h.dwr_date,
     source_type |-> source_type, pdf_source |-> pdf_source]

ItemRow(rid, item) == [dwr_record_id |-> rid, item |-> item]

InsertItems(table, rid, items) ==
    [i \in 1..Len(items) |-> Statement("insert", table, rid, ItemRow(rid, items[i]))]

\* save_dwr adding the new line items without clearing the old ones
save_dwr_appending(report, source_type, pdf_source) ==
    LET h == report.header
    IN <<Statement("insert_or_replace", "dwr_headers", h.record_id,
                   HeaderRow(h, source_type, pdf_source))>>
       \o InsertItems("labour_items", h.record_id, report.labour)
       \o InsertItems("equipment_items", h.record_id, report.equipment)
       \o InsertItems("material_items", h.record_id, report.materials)

\* the statements save_dwr executes, in order
save_dwr(report, source_type, pdf_source) ==
    LET h == report.header
    IN <<Statement("insert_or_replace", "dwr_headers", h.record_id,
                   HeaderRow(h, source_type, pdf_source))>>
       \o [i \in 1..Len(ItemTables) |->
              Statement("delete", ItemTables[i], h.record_id, None)]
       \o InsertItems("labour_items", h.record_id, report.labour)
       \o InsertItems("equipment_items", h.record_id, report.equipment)
       \o InsertItems("material_items", h.record_id, report.materials)

ReconciliationRow(key, ca, con, item) ==
    [change_order |-> key, work_date |-> ca.header.dwr_date,
     ca_record_id |-> ca.header.record_id,
     contractor_record_id |-> con.header.record_id, item |-> item]

\* the statements main executes to store recon_results
save_reconciliation(key, ca, con, recon_results) ==
    [i \in 1..Len(recon_results) |->
        Statement("insert", "reconciliation", ca.header.record_id,
                  ReconciliationRow(key, ca, con, recon_results[i]))]

\* the statement breaks a constraint of its table
ViolatesConstraint(st) ==
    /\ st.op = "insert_or_replace"
    /\ st.row.source_type \notin {"CA", "Contractor"}

\* INSERT OR REPLACE taken as a plain INSERT: the old header row stays
ExecuteInsertOnly(d, st) ==
    IF st.op = "delete"
    THEN [d EXCEPT ![st.table] =
             SelectSeq(@, LAMBDA r : r.dwr_record_id # st.record_id)]
    ELSE [d EXCEPT ![st.table] = Append(@, st.row)]

\* the tables after the statement
Execute(d, st) ==
    IF st.op = "insert_or_replace"
    THEN [d EXCEPT !.dwr_headers =
             Append(SelectSeq(@, LAMBDA r : r.record_id # st.row.record_id),
                    st.row)]
    ELSE IF st.op = "delete"
    THEN [d EXCEPT ![st.table] =
             SelectSeq(@, LAMBDA r : r.dwr_record_id # st.record_id)]
    ELSE [d EXCEPT ![st.table] = Append(@, st.row)]

\* a rollback that keeps what the statements wrote so far
RollbackKeepingWrites(committed, working) ==
    IF working = None THEN committed ELSE working[1]

\* the tables after the connection's rollback of an open transaction
Rollback(committed, working) == committed

\* ------------------------------------------------------------------------
\* reconcile.py find_dwr_pairs
\* ------------------------------------------------------------------------
EndsWithMd(name) ==
    Len(name) >= 3 /\ SubSeq(name, Len(name) - 2, Len(name)) = <<".","m","d">>

\* the name without its last three characters
Body(name) == SubSeq(name, 1, Len(name) - 3)

\* name matches "*__CA__*.md"
GlobCa(name) ==
    EndsWithMd(name) /\ Contains(<<"_","_","C","A","_","_">>, Body(name))

\* name matches "*__Contractor__*<change_order>*.md"
GlobContractor(name, change_order) ==
    /\ EndsWithMd(name)
    /\ \E i \in 1..Len(Body(name)) :
          /\ i + 13 <= Len(Body(name))
          /\ SubSeq(name, i, i + 13) =
                <<"_","_","C","o","n","t","r","a","c","t","o","r","_","_">>
          /\ Contains(change_order, SubSeq(Body(name), i + 14, Len(Body(name))))

\* re.search(r'(CO-\d+)', ca_file.name)
change_order_of(ca_file) ==
    LET m == co_search(ca_file)
    IN IF m = None THEN None ELSE Some(<<"C","O","-">> \o m[1])

\* the Contractor files the glob for a CA file can list
contractor_files(dir, ca_file) ==
    IF change_order_of(ca_file) = None THEN {}
    ELSE {f \in dir : GlobContractor(f, change_order_of(ca_file)[1])}

\* the orders in which a glob can list the files of S
Orderings(S) ==
    {f \in [1..Cardinality(S) -> S] :
        \A i, j \in 1..Cardinality(S) : i # j => f[i] # f[j]}

\* the lists find_dwr_pairs can return: a glob lists files in no fixed order
find_dwr_pairs(dir) ==
    LET paired == {f \in dir : GlobCa(f) /\ contractor_files(dir, f) # {}}
        n == Cardinality(paired)
    IN UNION {
           { [i \in 1..n |-> <<ord[i], ch[i]>>] :
                ch \in {c \in [1..n -> dir] :
                           \A i \in 1..n : c[i] \in contractor_files(dir, ord[i])} }
           : ord \in Orderings(paired) }

\* the ParsedDWR a CA file and a Contractor file can hold
ParsedCaFiles ==
    { ParsedDWR(ParsedHeader("DWR-7", "Inspector A", "2021-08-05", "CO-21"),
                [labour |-> <<ParsedLineItem("Labour", ForemanName, 20, "man-hours")>>,
                 equipment |-> <<ParsedLineItem("Equipment", BackhoeName, 8, "hours")>>,
                 materials |-> <<>>]),
      ParsedDWR(ParsedHeader("DWR-7", "Inspector A", "2021-08-05", ""),
                [labour |-> <<>>, equipment |-> <<>>, materials |-> <<>>]) }
ParsedContractorFiles ==
    { ParsedDWR(ParsedHeader("DWR-9", "Foreman B", "2021-08-06", "CO-7"),
                [labour |-> <<ParsedLineItem("Labour", ForemanLow, 22, "man-hours"),
                              ParsedLineItem("Labour", OperatorName, 8, "man-hours")>>,
                 equipment |-> <<>>,
                 materials |-> <<>>]),
      ParsedDWR(ParsedHeader("DWR-9", "Foreman B", "2021-08-06", "CO-7"),
                [labour |-> <<>>,
                 equipment |-> <<ParsedLineItem("Equipment", BackhoeName, 8, "hours")>>,
                 materials |-> <<>>]) }

\* ------------------------------------------------------------------------
\* reconcile.py: markdown tables to line items.  A document is the list of
\* its lines, content.split('\n'); no line of a document ends in "##"
\* ------------------------------------------------------------------------
LabourSection == <<"L","a","b","o","u","r">>
EquipmentSection == <<"E","q","u","i","p","m","e","n","t">>
MaterialSection ==
    <<"M","a","t","e","r","i","a","l"," ","S","u","p","p","l","i","e","d"," ">>
    \o <<"b","y"," ","C","o","n","t","r","a","c","t","o","r">>
CommentsSection == <<"C","o","m","m","e","n","t","s">>
Heading(section_name) == <<"#", "#", " ">> \o section_name

startswith(s, prefix) ==
    Len(s) >= Len(prefix) /\ SubSeq(s, 1, Len(prefix)) = prefix

\* s.split(sep) for a one-character sep
RECURSIVE split_on(_, _)
split_on(s, sep) ==
    IF \A i \in 1..Len(s) : s[i] # sep THEN <<s>>
    ELSE LET i == CHOOSE x \in 1..Len(s) :
                      s[x] = sep /\ \A y \in 1..(x - 1) : s[y] # sep
         IN <<SubSeq(s, 1, i - 1)>> \o split_on(SubSeq(s, i + 1, Len(s)), sep)

RECURSIVE Pow10(_)
Pow10(n) == IF n = 0 THEN 1 ELSE 10 * Pow10(n - 1)

RECURSIVE NatOf(_)
NatOf(ds) ==
    IF ds = <<>> THEN 0
    ELSE 10 * NatOf(SubSeq(ds, 1, Len(ds) - 1)) + (IndexIn(ds[Len(ds)], Digits) - 1)

\* digits with single underscores between them, the underscores dropped;
\* None when t is not of that form (the empty string is of that form)
DigitRun(t) ==
    IF /\ \A i \in 1..Len(t) : IsDigit(t[i]) \/ t[i] = "_"
       /\ \A i \in 1..Len(t) :
             t[i] = "_" => /\ i > 1 /\ i < Len(t)
                           /\ IsDigit(t[i - 1]) /\ IsDigit(t[i + 1])
    THEN Some(SelectSeq(t, IsDigit))
    ELSE None

\* an unsigned decimal without exponent: <<digits before the point, after>>
DecimalOf(t) ==
    LET parts == split_on(t, ".")
        ip == DigitRun(parts[1])
        fp == IF Len(parts) = 2 THEN DigitRun(parts[2]) ELSE Some(<<>>)
    IN IF Len(parts) > 2 \/ ip = None \/ fp = None THEN None
       ELSE IF ip[1] = <<>> /\ fp[1] = <<>> THEN None
       ELSE Some(<<ip[1], fp[1]>>)

NaN == [num |-> 0, den |-> 0]
Infinity(sign) == [num |-> sign, den |-> 0]

\* float(s): None for ValueError, else the value as a fraction
float(s) ==
    LET t == strip(s)
        signed == t # <<>> /\ t[1] \in {"+", "-"}
        sign == IF signed /\ t[1] = "-" THEN -1 ELSE 1
        body == lower(IF signed THEN Tail(t) ELSE t)
        es == {i \in 1..Len(body) : body[i] = "e"}
        mant == IF es = {} THEN body
                ELSE SubSeq(body, 1, (CHOOSE i \in es : TRUE) - 1)
        ex == IF es = {} THEN <<"0">>
              ELSE SubSeq(body, (CHOOSE i \in es : TRUE) + 1, Len(body))
        exsigned == ex # <<>> /\ ex[1] \in {"+", "-"}
        exdigits == DigitRun(IF exsigned THEN Tail(ex) ELSE ex)
        dec == DecimalOf(mant)
    IN IF body = <<"n","a","n">> THEN Some(NaN)
       ELSE IF body \in {<<"i","n","f">>, <<"i","n","f","i","n","i","t","y">>}
       THEN Some(Infinity(sign))
       ELSE IF Cardinality(es) > 1 \/ dec = None \/ exdigits = None THEN None
       ELSE IF exdigits[1] = <<>> THEN None
       ELSE LET n == NatOf(dec[1][1] \o dec[1][2])
                d == Pow10(Len(dec[1][2]))
                e == NatOf(exdigits[1])
            IN IF exsigned /\ ex[1] = "-"
               THEN Some(Frac(sign * n, d * Pow10(e)))
               ELSE Some(Frac(sign * n * Pow10(e), d))

\* the line holds "##", whitespace and the section name, in any case
HeadingOf(line, section_name) ==
    \E i \in 1..Len(line) :
       /\ startswith(SubSeq(line, i, Len(line)), <<"#", "#">>)
       /\ startswith(lower(lstrip(SubSeq(line, i + 2, Len(line)))),
                     lower(section_name))

ClassificationLabel == <<"C","l","a","s","s","i","f","i","c","a","t","i","o","n">>
EquipmentNameLabel == <<"E","q","u","i","p","m","e","n","t"," ","N","a","m","e">>
MaterialLabel == <<"M","a","t","e","r","i","a","l">>
TemperatureLabel == <<"T","e","m","p","e","r","a","t","u","r","e"," ","(","C",")">>
NoLabel == <<"N","o">>
HeaderLabels ==
    { ClassificationLabel, EquipmentNameLabel, MaterialLabel, TemperatureLabel,
      NoLabel }

\* the cells of a table line
CellsOf(line) ==
    LET parts == split_on(line, "|")
    IN [i \in 1..(Len(parts) - 2) |-> strip(parts[i + 1])]

\* the lines of the section: from after the first blank line that follows
\* the heading up to the next line that begins with "##", or to the end
SectionLines(content, section_name) ==
    LET hs == {i \in 1..Len(content) : HeadingOf(content[i], section_name)}
        h == CHOOSE i \in hs : \A j \in hs : i <= j
        bs == {i \in (h + 1)..(Len(content) - 1) : content[i] = <<>>}
        b == CHOOSE i \in bs : \A j \in bs : i <= j
        es == {i \in (b + 2)..Len(content) : startswith(content[i], <<"#", "#">>)}
        e == IF es = {} THEN Len(content) + 1
             ELSE CHOOSE i \in es : \A j \in es : i <= j
    IN IF hs = {} THEN None
       ELSE IF bs = {} THEN None
       ELSE Some(SubSeq(content, b + 1, e - 1))

\* a line of the section that yields a row
IsRowLine(line) ==
    /\ startswith(line, <<"|">>)
    /\ ~startswith(line, <<"|", "-", "-", "-">>)
    /\ ~startswith(line, <<"|"," ","F","i","e","l","d">>)
    /\ Len(CellsOf(line)) > 1
    /\ CellsOf(line)[1] \notin HeaderLabels

parse_table_section(content, section_name) ==
    LET section == SectionLines(content, section_name)
        stripped == IF section = None THEN <<>>
                    ELSE [i \in 1..Len(section[1]) |-> strip(section[1][i])]
        kept == SelectSeq(stripped, IsRowLine)
    IN [i \in 1..Len(kept) |-> CellsOf(kept[i])]

\* float(cell) if cell else 0.0
NumberOf(cell) == IF cell = <<>> THEN Some(Frac(0, 1)) ELSE float(cell)

\* the rows a parser builds an item from: enough cells, a numeric cell that
\* float accepts
ItemRows(rows, min_len, col) ==
    SelectSeq(rows, LAMBDA row : Len(row) >= min_len /\ NumberOf(row[col]) # None)

parse_labour_table(content) ==
    LET good == ItemRows(parse_table_section(content, LabourSection), 6, 6)
    IN [i \in 1..Len(good) |->
           ParsedLineItem("Labour", good[i][1], NumberOf(good[i][6])[1],
                          "man-hours")]

parse_equipment_table(content) ==
    LET good == ItemRows(parse_table_section(content, EquipmentSection), 4, 4)
    IN [i \in 1..Len(good) |->
           ParsedLineItem("Equipment", good[i][1], NumberOf(good[i][4])[1],
                          "hours")]

\* f"{material} - {description}" if description else material
full_desc(material, description) ==
    IF description = <<>> THEN material
    ELSE material \o <<" ", "-", " ">> \o description

parse_materials_table(content) ==
    LET good == ItemRows(parse_table_section(content, MaterialSection), 4, 4)
    IN [i \in 1..Len(good) |->
           ParsedLineItem("Material", full_desc(good[i][1], good[i][2]),
                          NumberOf(good[i][4])[1], good[i][3])]

\* a table line as generate_dwr_markdown writes it
RECURSIVE TableLine(_)
TableLine(cells) ==
    IF cells = <<>> THEN <<"|">>
    ELSE TableLine(SubSeq(cells, 1, Len(cells) - 1))
         \o <<" ">> \o cells[Len(cells)] \o <<" ", "|">>

RECURSIVE SeparatorLine(_)
SeparatorLine(n) ==
    IF n = 0 THEN <<"|">> ELSE SeparatorLine(n - 1) \o <<"-", "-", "-", "|">>

LabourLine(classification, total) ==
    TableLine(<<classification, <<"2">>, <<>>, <<"4",".","0","0">>, <<>>, total,
                <<>>, <<>>, <<>>>>)
EquipmentLine(name, hours) ==
    TableLine(<<name, <<"0">>, <<"O","w","n","e","d">>, hours, <<"0",".","0","0">>,
                <<"0",".","0","0">>, <<"N","o">>, <<>>, <<>>, <<>>>>)
MaterialLine(material, description, units, quantity) ==
    TableLine(<<material, description, units, quantity, <<"N","e","w">>, <<>>,
                <<>>, <<>>>>)

FieldEngineer == <<"F","i","e","l","d"," ","E","n","g","i","n","e","e","r">>
LabourLinePool ==
    { LabourLine(ForemanName, <<"8",".","0","0">>),
      LabourLine(OperatorName, <<"1","e","1">>),
      LabourLine(OperatorName, <<>>),
      LabourLine(ForemanName, <<"n","/","a">>),
      LabourLine(FieldEngineer, <<"8",".","5">>),
      LabourLine(NoLabel, <<"3">>) }
EquipmentLinePool ==
    { EquipmentLine(BackhoeName, <<"4",".","5","0">>),
      EquipmentLine(IntlShort, <<"4","h">>) }
MaterialLinePool ==
    { MaterialLine(GravelName, <<"1","9","m","m">>, <<"t">>, <<"1","0">>),
      MaterialLine(PipeName, <<>>, <<"m">>, <<"1","0",",","5">>) }

MaxRows == 2
LinesOf(Pool) == UNION {[1..n -> Pool] : n \in 0..MaxRows}

\* the three line-item sections of a document generate_dwr_markdown writes
Document(labour, equipment, materials) ==
    <<Heading(LabourSection), <<>>,
      TableLine(<<ClassificationLabel, <<"T","o","t","a","l">>>>), SeparatorLine(2)>>
    \o labour
    \o <<<<>>, Heading(EquipmentSection), <<>>,
         TableLine(<<EquipmentNameLabel, <<"H","o","u","r","s">>>>), SeparatorLine(2)>>
    \o equipment
    \o <<<<>>, Heading(MaterialSection), <<>>,
         TableLine(<<MaterialLabel, <<"U","n","i","t","s">>>>), SeparatorLine(2)>>
    \o materials
    \o <<<<>>, Heading(CommentsSection), <<>>,
         TableLine(<<NoLabel, <<"C","o","m","m","e","n","t","s">>>>), SeparatorLine(2),
         TableLine(<<<<"1">>, <<"c","h","e","c","k","e","d">>>>)>>

DocumentPool ==
    { Document(l, e, m) : l \in LinesOf(LabourLinePool),
                          e \in LinesOf(EquipmentLinePool),
                          m \in LinesOf(MaterialLinePool) }

\* ------------------------------------------------------------------------
\* State
\* ------------------------------------------------------------------------
VARIABLES
    program,            \* which script runs: "extract" or "reconcile"
    pc,                 \* position inside reconcile_dwrs
    ca_report,          \* extract.py: the CA DWRReport
    contractor_report,  \* extract.py: the Contractor DWRReport
    results,            \* extract.py: the list reconcile_dwrs builds
    ca_dwr,             \* reconcile.py: the CA ParsedDWR
    contractor_dwr,     \* reconcile.py: the Contractor ParsedDWR
    result,             \* reconcile.py: the ReconciliationResult
    ca_val,             \* classifier: CA value
    con_val,            \* classifier: Contractor value
    classified,         \* classifier: <<variance_pct, status>> returned
    divisor,            \* classifier: the value divided by, if any
    main_pc,            \* main: position inside main
    directory,          \* main: the .md files of markdown_output
    ca_files,           \* extract.py main: the CA files, sorted
    con_files,          \* extract.py main: the Contractor files, sorted
    file_idx,           \* main: index of the loop's current element
    contractor_file,    \* extract.py main: the counterpart found, if any
    attempt,            \* extract_dwr_with_llm: the loop variable
    llm_calls,          \* extract_dwr_with_llm: calls of ollama.chat so far
    response,           \* extract_dwr_with_llm: the last answer, if any
    db,                 \* the committed tables of the database
    txn,                \* the tables as the open transaction sees them, if any
    stmts,              \* the statements the open transaction has yet to run
    printed,            \* main: the messages printed so far
    pairs,              \* reconcile.py main: the list find_dwr_pairs returned
    all_results,        \* reconcile.py main: the results collected
    content,            \* reconcile.py parser: the lines of the markdown
    parser,             \* reconcile.py parser: the table parser that ran
    parsed,             \* reconcile.py parser: the items it returned, if any
    summary,            \* reconcile.py main: the figures of the overall summary
    runs                \* the runs of main started so far

mainVars == <<main_pc, directory, ca_files, con_files, file_idx,
              contractor_file, attempt, llm_calls, response, db, txn, stmts,
              printed, pairs, all_results, summary, runs>>

vars == <<program, pc, ca_report, contractor_report, results,
          ca_dwr, contractor_dwr, result, ca_val, con_val, classified, divisor,
          mainVars, content, parser, parsed>>

reconVars == <<program, pc, ca_report, contractor_report, results,
               ca_dwr, contractor_dwr, result>>
classVars == <<ca_val, con_val, classified, divisor>>
parseVars == <<content, parser, parsed>>

NoResult == [items |-> <<>>]

ReconIdle ==
    /\ program = "none" /\ pc = "idle"
    /\ ca_report = EmptyRecord /\ contractor_report = EmptyRecord
    /\ results = <<>>
    /\ ca_dwr = EmptyRecord /\ contractor_dwr = EmptyRecord
    /\ result = NoResult

ClassIdle ==
    /\ ca_val = 0 /\ con_val = 0 /\ classified = None /\ divisor = None

\* main at its first line, over the files of dir
MainAtStart(dir) ==
    /\ directory = dir
    /\ ca_files = <<>> /\ con_files = <<>> /\ file_idx = 0
    /\ contractor_file = None
    /\ attempt = 0 /\ llm_calls = 0 /\ response = None
    /\ db = EmptyDb /\ txn = None /\ stmts = <<>>
    /\ printed = <<>> /\ pairs = <<>> /\ all_results = <<>>
    /\ summary = None /\ runs = 1

MainIdle == main_pc = "idle" /\ MainAtStart({})

ParseIdle == content = <<>> /\ parser = "none" /\ parsed = None

\* ------------------------------------------------------------------------
\* Spec: one reconciliation run of either script
\* ------------------------------------------------------------------------
Init ==
    /\ ClassIdle
    /\ MainIdle
    /\ ParseIdle
    /\ pc = "start"
    /\ results = <<>>
    /\ result = NoResult
    /\ \E sh \in PairShapes(MaxItems) :
          \/ /\ program = "extract"
             /\ ca_report \in
                  [labour : ListsOf(sh[1], LabourPool),
                   equipment : ListsOf(sh[2], EquipmentPool),
                   materials : ListsOf(sh[3], MaterialPool)]
             /\ contractor_report \in
                  [labour : ListsOf(sh[4], LabourPool),
                   equipment : ListsOf(sh[5], EquipmentPool),
                   materials : ListsOf(sh[6], MaterialPool)]
             /\ ca_dwr = EmptyRecord /\ contractor_dwr = EmptyRecord
          \/ /\ program = "reconcile"
             /\ ca_dwr \in
                  { ParsedDWR(h, b) : h \in CaHeaderPool, b \in
                      [labour : ListsOf(sh[1], ParsedOf("Labour")),
                       equipment : ListsOf(sh[2], ParsedOf("Equipment")),
                       materials : ListsOf(sh[3], ParsedOf("Material"))] }
             /\ contractor_dwr \in
                  { ParsedDWR(h, b) : h \in ContractorHeaderPool, b \in
                      [labour : ListsOf(sh[4], ParsedOf("Labour")),
                       equipment : ListsOf(sh[5], ParsedOf("Equipment")),
                       materials : ListsOf(sh[6], ParsedOf("Material"))] }
             /\ ca_report = EmptyRecord /\ contractor_report = EmptyRecord

ReconcileLabour ==
    /\ program = "extract" /\ pc = "start"
    /\ results' = results \o LabourPass(ca_report, contractor_report)
    /\ pc' = "labour"
    /\ UNCHANGED <<program, ca_report, contractor_report, ca_dwr,
                   contractor_dwr, result, classVars, mainVars, parseVars>>

ReconcileEquipment ==
    /\ program = "extract" /\ pc = "labour"
    /\ results' = results \o EquipmentPass(ca_report, contractor_report)
    /\ pc' = "equipment"
    /\ UNCHANGED <<program, ca_report, contractor_report, ca_dwr,
                   contractor_dwr, result, classVars, mainVars, parseVars>>

ReconcileMaterials ==
    /\ program = "extract" /\ pc = "equipment"
    /\ results' = results \o MaterialPass(ca_report, contractor_report)
    /\ pc' = "done"
    /\ UNCHANGED <<program, ca_report, contractor_report, ca_dwr,
                   contractor_dwr, result, classVars, mainVars, parseVars>>

ReconcileDwrs ==
    /\ program = "reconcile" /\ pc = "start"
    /\ result' = reconcile_reconcile_dwrs(ca_dwr, contractor_dwr)
    /\ pc' = "done"
    /\ UNCHANGED <<program, ca_report, contractor_report, results, ca_dwr,
                   contractor_dwr, classVars, mainVars, parseVars>>

Next ==
    \/ ReconcileLabour
    \/ ReconcileEquipment
    \/ ReconcileMaterials
    \/ ReconcileDwrs

Spec == Init /\ [][Next]_vars

\* ------------------------------------------------------------------------
\* SpecVariance: the two variance classifiers applied to a pair of values
\* ------------------------------------------------------------------------
\* the values classified: a grid, and three larger values, two of which
\* deviate from 119 by a little more than 5 percent
ClassifiedValues == 0..MaxVal \cup {113, 119, 125}

InitVariance ==
    /\ ReconIdle
    /\ MainIdle
    /\ ParseIdle
    /\ ca_val \in ClassifiedValues
    /\ con_val \in ClassifiedValues
    /\ classified = None
    /\ divisor = None

CalcVariance ==
    /\ classified = None
    /\ classified' = Some(<<"extract", calc_variance(ca_val, con_val)>>)
    /\ divisor' = IF calc_variance_divides(ca_val, con_val) THEN Some(ca_val) ELSE None
    /\ UNCHANGED <<ca_val, con_val, reconVars, mainVars, parseVars>>

CalculateVariance ==
    /\ classified = None
    /\ classified' = Some(<<"reconcile", calculate_variance(ca_val, con_val)>>)
    /\ divisor' = IF calculate_variance_divides(ca_val, con_val)
                  THEN Some(ca_val) ELSE None
    /\ UNCHANGED <<ca_val, con_val, reconVars, mainVars, parseVars>>

NextVariance == CalcVariance \/ CalculateVariance

SpecVariance == InitVariance /\ [][NextVariance]_vars

\* ------------------------------------------------------------------------
\* SpecParse: one table parser of reconcile.py applied to a document
\* ------------------------------------------------------------------------
InitParse ==
    /\ ReconIdle
    /\ ClassIdle
    /\ MainIdle
    /\ content \in DocumentPool
    /\ parser = "none"
    /\ parsed = None

ParseLabourTable ==
    /\ parsed = None
    /\ parser' = "labour"
    /\ parsed' = Some(parse_labour_table(content))
    /\ UNCHANGED <<content, reconVars, classVars, mainVars>>

ParseEquipmentTable ==
    /\ parsed = None
    /\ parser' = "equipment"
    /\ parsed' = Some(parse_equipment_table(content))
    /\ UNCHANGED <<content, reconVars, classVars, mainVars>>

ParseMaterialsTable ==
    /\ parsed = None
    /\ parser' = "materials"
    /\ parsed' = Some(parse_materials_table(content))
    /\ UNCHANGED <<content, reconVars, classVars, mainVars>>

NextParse == ParseLabourTable \/ ParseEquipmentTable \/ ParseMaterialsTable

SpecParse == InitParse /\ [][NextParse]_vars

\* ------------------------------------------------------------------------
\* SpecMain: one run of extract.py main or of reconcile.py main over the
\* files of markdown_output
\* ------------------------------------------------------------------------
InitMain ==
    /\ ClassIdle
    /\ ParseIdle
    /\ program \in {"extract", "reconcile"}
    /\ pc = "idle"
    /\ ca_report = EmptyRecord /\ contractor_report = EmptyRecord
    /\ results = <<>>
    /\ ca_dwr = EmptyRecord /\ contractor_dwr = EmptyRecord
    /\ result = NoResult
    /\ main_pc = "start"
    /\ \E dir \in SUBSET FilePool : MainAtStart(dir)

llmVars == <<attempt, llm_calls, response>>
dbVars == <<db, txn, stmts>>
fileVars == <<directory, ca_files, con_files>>
reportVars == <<ca_report, contractor_report, results>>
\* what extract.py main never writes
reconcileMainVars ==
    <<program, pc, ca_dwr, contractor_dwr, result, classVars, pairs, all_results,
      summary, runs, parseVars>>

Say(msg) == printed' = Append(printed, <<msg, file_idx>>)

\* DatabaseManager() raised
MainDbUnavailable ==
    /\ program = "extract" /\ main_pc = "start"
    /\ main_pc' = "return1"
    /\ Say("cannot proceed without database")
    /\ UNCHANGED <<fileVars, file_idx, contractor_file, llmVars, dbVars,
                   reportVars, reconcileMainVars>>

\* the database is there: sort the files into ca_files and con_files
MainDiscover ==
    /\ program = "extract" /\ main_pc = "start"
    /\ ca_files' = SelectSeq(sorted(directory), IsCaName)
    /\ con_files' = SelectSeq(sorted(directory), IsContractorName)
    /\ main_pc' = IF ca_files' = <<>> /\ con_files' = <<>> THEN "single" ELSE "loop"
    /\ file_idx' = 1
    /\ UNCHANGED <<directory, contractor_file, llmVars, dbVars, printed,
                   reportVars, reconcileMainVars>>

\* single file mode, report.md does not exist
MainNoMarkdown ==
    /\ program = "extract" /\ main_pc = "single"
    /\ main_pc' = "return1"
    /\ Say("no markdown files found")
    /\ UNCHANGED <<fileVars, file_idx, contractor_file, llmVars, dbVars,
                   reportVars, reconcileMainVars>>

\* single file mode, report.md exists
MainSingleFile ==
    /\ program = "extract" /\ main_pc = "single"
    /\ main_pc' = "extract_single"
    /\ attempt' = 0 /\ llm_calls' = 0 /\ response' = None
    /\ UNCHANGED <<fileVars, file_idx, contractor_file, dbVars, printed,
                   reportVars, reconcileMainVars>>

InLoop == program = "extract" /\ main_pc = "loop" /\ file_idx <= Len(ca_files)
CurrentCa == ca_files[file_idx]

\* no change-order key in the CA file's name: continue
MainSkipNoKey ==
    /\ InLoop
    /\ co_match(CurrentCa) = None
    /\ Say("cannot determine CO")
    /\ file_idx' = file_idx + 1
    /\ UNCHANGED <<main_pc, fileVars, contractor_file, llmVars, dbVars,
                   reportVars, reconcileMainVars>>

\* no Contractor file for the key: continue
MainSkipNoCounterpart ==
    /\ InLoop
    /\ co_match(CurrentCa) # None
    /\ contractor_file_for(co_match(CurrentCa)[1], con_files) = None
    /\ Say("no contractor match")
    /\ file_idx' = file_idx + 1
    /\ contractor_file' = None
    /\ UNCHANGED <<main_pc, fileVars, llmVars, dbVars, reportVars,
                   reconcileMainVars>>

\* a pair: go on to extract the CA file
MainBeginPair ==
    /\ InLoop
    /\ co_match(CurrentCa) # None
    /\ contractor_file_for(co_match(CurrentCa)[1], con_files) # None
    /\ contractor_file' = contractor_file_for(co_match(CurrentCa)[1], con_files)
    /\ Say("processing pair")
    /\ main_pc' = "extract_ca"
    /\ attempt' = 0 /\ llm_calls' = 0 /\ response' = None
    /\ UNCHANGED <<fileVars, file_idx, dbVars, reportVars, reconcileMainVars>>

\* the loop is over
MainComplete ==
    /\ program = "extract" /\ main_pc = "loop" /\ file_idx > Len(ca_files)
    /\ Say("extraction and reconciliation complete")
    /\ main_pc' = "return0"
    /\ UNCHANGED <<fileVars, file_idx, contractor_file, llmVars, dbVars,
                   reportVars, reconcileMainVars>>

ExtractPcs == {"extract_ca", "extract_con", "extract_single"}

\* one pass of the retry loop that retries once more than max_retries allows
AttemptFailsOneMore(r) ==
    /\ main_pc \in ExtractPcs
    /\ llm_calls' = llm_calls + 1
    /\ response' = Some(r)
    /\ IF attempt < max_retries
       THEN attempt' = attempt + 1 /\ main_pc' = main_pc
       ELSE attempt' = attempt /\ main_pc' = "extraction_error"
    /\ UNCHANGED <<fileVars, file_idx, contractor_file, dbVars, printed,
                   reportVars, reconcileMainVars>>

\* one pass of the retry loop whose third failure lets main go on to the
\* reconciliation of the pair
AttemptFailsGoesOn(r) ==
    /\ main_pc \in ExtractPcs
    /\ llm_calls' = llm_calls + 1
    /\ response' = Some(r)
    /\ IF attempt < max_retries - 1
       THEN attempt' = attempt + 1 /\ main_pc' = main_pc
       ELSE attempt' = attempt /\ main_pc' = "reconcile"
    /\ UNCHANGED <<fileVars, file_idx, contractor_file, dbVars, printed,
                   reportVars, reconcileMainVars>>

\* one pass of the retry loop ending in an except clause, the answer being r:
\* continue while attempt < max_retries - 1, else raise
AttemptFails(r) ==
    /\ main_pc \in ExtractPcs
    /\ llm_calls' = llm_calls + 1
    /\ response' = Some(r)
    /\ IF attempt < max_retries - 1
       THEN attempt' = attempt + 1 /\ main_pc' = main_pc
       ELSE attempt' = attempt /\ main_pc' = "extraction_error"
    /\ UNCHANGED <<fileVars, file_idx, contractor_file, dbVars, printed,
                   reportVars, reconcileMainVars>>

\* ollama.chat raised
ChatRaises == AttemptFails(ChatError)

\* json.loads raised JSONDecodeError
InvalidJson == AttemptFails(NotJson)

\* DWRReport(**response_data) raised ValidationError
ValidationFails == \E d \in DataPool : ~SchemaValid(d) /\ AttemptFails(JsonOf(d))

\* extract_dwr_with_llm returns the report built from d to main
ReturnReport(d) ==
    /\ main_pc \in ExtractPcs
    /\ llm_calls' = llm_calls + 1
    /\ response' = Some(JsonOf(d))
    /\ attempt' = attempt
    /\ IF main_pc = "extract_con"
       THEN /\ contractor_report' = DWRReport(d)
            /\ main_pc' = "save_con"
            /\ UNCHANGED ca_report
       ELSE /\ ca_report' = DWRReport(d)
            /\ main_pc' = IF main_pc = "extract_ca" THEN "save_ca" ELSE "save_single"
            /\ UNCHANGED contractor_report
    /\ UNCHANGED <<fileVars, file_idx, contractor_file, dbVars, printed,
                   results, reconcileMainVars>>

\* a pass that returns any dict with a header, its line items unchecked
ValidationPassesUnchecked ==
    \E d \in DataPool : d.header # None /\ ReturnReport(d)

\* the answer parses and validates: return validated_report
ValidationPasses == \E d \in DataPool : SchemaValid(d) /\ ReturnReport(d)

SaveDwrPcs == {"save_ca", "save_con", "save_single"}
SavePcs == SaveDwrPcs \cup {"save_recon"}

ReportMd == <<"r","e","p","o","r","t",".","m","d">>

\* the statements of the save main is at
StatementsAt ==
    IF main_pc = "save_ca" THEN save_dwr(ca_report, "CA", CurrentCa)
    ELSE IF main_pc = "save_con"
    THEN save_dwr(contractor_report, "Contractor", contractor_file[1])
    ELSE IF main_pc = "save_single" THEN save_dwr(ca_report, "Unknown", ReportMd)
    ELSE save_reconciliation(co_match(CurrentCa)[1], ca_report,
                             contractor_report, results)

\* with sqlite3.connect(...) as conn
DbBegin ==
    /\ program = "extract" /\ main_pc \in SavePcs
    /\ txn = None
    /\ txn' = Some(db)
    /\ stmts' = StatementsAt
    /\ UNCHANGED <<main_pc, db, fileVars, file_idx, contractor_file, llmVars,
                   printed, reportVars, reconcileMainVars>>

\* cursor.execute of the next statement
DbExecute ==
    /\ program = "extract" /\ main_pc \in SavePcs
    /\ txn # None /\ stmts # <<>>
    /\ ~ViolatesConstraint(Head(stmts))
    /\ txn' = Some(Execute(txn[1], Head(stmts)))
    /\ stmts' = Tail(stmts)
    /\ UNCHANGED <<main_pc, db, fileVars, file_idx, contractor_file, llmVars,
                   printed, reportVars, reconcileMainVars>>

\* conn.commit() and the return to main
DbCommit ==
    /\ program = "extract" /\ main_pc \in SavePcs
    /\ txn # None /\ stmts = <<>>
    /\ db' = txn[1]
    /\ txn' = None
    /\ stmts' = <<>>
    /\ IF main_pc = "save_recon"
       THEN /\ Say("reconciliation saved")
            /\ main_pc' = "loop"
            /\ file_idx' = file_idx + 1
            /\ UNCHANGED llmVars
       ELSE /\ Say("saved")
            /\ file_idx' = file_idx
            /\ IF main_pc = "save_ca"
               THEN /\ main_pc' = "extract_con"
                    /\ attempt' = 0 /\ llm_calls' = 0 /\ response' = None
               ELSE /\ main_pc' = IF main_pc = "save_con" THEN "reconcile"
                                  ELSE "return0"
                    /\ UNCHANGED llmVars
    /\ UNCHANGED <<fileVars, contractor_file, reportVars, reconcileMainVars>>

\* sqlite3.Error at connect, at a statement or at commit: the connection
\* rolls back; save_dwr re-raises, main's own save prints and goes on
DbError ==
    /\ program = "extract" /\ main_pc \in SavePcs
    /\ db' = Rollback(db, txn)
    /\ txn' = None
    /\ stmts' = <<>>
    /\ IF main_pc = "save_recon"
       THEN /\ Say("failed to save reconciliation")
            /\ main_pc' = "loop"
            /\ file_idx' = file_idx + 1
       ELSE /\ Say("database save failed")
            /\ main_pc' = "database_error"
            /\ file_idx' = file_idx
    /\ UNCHANGED <<fileVars, contractor_file, llmVars, reportVars,
                   reconcileMainVars>>

\* recon_results = reconcile_dwrs(ca_report, con_report)
MainReconcile ==
    /\ program = "extract" /\ main_pc = "reconcile"
    /\ results' = extract_reconcile_dwrs(ca_report, contractor_report)
    /\ main_pc' = "save_recon"
    /\ UNCHANGED <<ca_report, contractor_report, fileVars, file_idx,
                   contractor_file, llmVars, dbVars, printed, reconcileMainVars>>

\* ReconciliationResult: the number of items of a status
CountStatus(items, st) == Len(SelectSeq(items, LAMBDA item : item.status = st))
flags_count(r) == CountStatus(r.items, "FLAG")
matches_count(r) == CountStatus(r.items, "MATCH")
new_count(r) == CountStatus(r.items, "NEW")
missing_count(r) == CountStatus(r.items, "MISSING")

\* sum(...) of a sequence of numbers
RECURSIVE sum(_)
sum(ns) == IF ns = <<>> THEN 0 ELSE Head(ns) + sum(Tail(ns))

\* the figures main prints in the overall summary
OverallSummary(rs) ==
    LET total_flags == sum([i \in 1..Len(rs) |-> flags_count(rs[i])])
        total_matches == sum([i \in 1..Len(rs) |-> matches_count(rs[i])])
        total_new == sum([i \in 1..Len(rs) |-> new_count(rs[i])])
    IN [pairs_processed |-> Len(rs),
        total_line_items |-> total_matches + total_flags + total_new,
        matches |-> total_matches, flags |-> total_flags, new_items |-> total_new]

\* what reconcile.py main never writes
extractMainVars ==
    <<program, pc, reportVars, classVars, ca_files, con_files, contractor_file,
      llmVars, dbVars, runs, parseVars>>

\* reconcile.py main: markdown_output does not exist
RMainNoDirectory ==
    /\ program = "reconcile" /\ main_pc = "start"
    /\ directory = {}
    /\ main_pc' = "return1"
    /\ Say("directory not found")
    /\ UNCHANGED <<directory, file_idx, pairs, all_results, ca_dwr,
                   contractor_dwr, result, summary, extractMainVars>>

\* pairs = find_dwr_pairs(output_dir); return 1 if there is none
RMainFindPairs ==
    /\ program = "reconcile" /\ main_pc = "start"
    /\ pairs' \in find_dwr_pairs(directory)
    /\ IF pairs' = <<>>
       THEN main_pc' = "return1" /\ Say("no DWR pairs found")
       ELSE main_pc' = "loop" /\ UNCHANGED printed
    /\ file_idx' = 1
    /\ UNCHANGED <<directory, all_results, ca_dwr, contractor_dwr, result,
                   summary, extractMainVars>>

\* result = reconcile_from_files(ca_path, contractor_path)
RMainReconcile ==
    /\ program = "reconcile" /\ main_pc = "loop" /\ file_idx <= Len(pairs)
    /\ ca_dwr' \in ParsedCaFiles
    /\ contractor_dwr' \in ParsedContractorFiles
    /\ result' = reconcile_reconcile_dwrs(ca_dwr', contractor_dwr')
    /\ all_results' = Append(all_results, result')
    /\ file_idx' = file_idx + 1
    /\ UNCHANGED <<main_pc, directory, pairs, printed, summary, extractMainVars>>

\* the loop is over: print the summary and return 0
RMainSummary ==
    /\ program = "reconcile" /\ main_pc = "loop" /\ file_idx > Len(pairs)
    /\ Say("overall summary")
    /\ summary' = Some(OverallSummary(all_results))
    /\ main_pc' = "return0"
    /\ UNCHANGED <<directory, file_idx, pairs, all_results, ca_dwr,
                   contractor_dwr, result, extractMainVars>>

NextMain ==
    \/ MainDbUnavailable
    \/ MainDiscover
    \/ MainNoMarkdown
    \/ MainSingleFile
    \/ MainSkipNoKey
    \/ MainSkipNoCounterpart
    \/ MainBeginPair
    \/ MainComplete
    \/ ChatRaises
    \/ InvalidJson
    \/ ValidationFails
    \/ ValidationPasses
    \/ DbBegin
    \/ DbExecute
    \/ DbCommit
    \/ DbError
    \/ MainReconcile
    \/ RMainNoDirectory
    \/ RMainFindPairs
    \/ RMainReconcile
    \/ RMainSummary

SpecMain == InitMain /\ [][NextMain]_vars

\* ------------------------------------------------------------------------
\* SpecRerun: extract.py run again and again over one pair of files, the
\* database file staying in place between the runs
\* ------------------------------------------------------------------------
MaxRuns == 2

InitRerun ==
    /\ InitMain
    /\ program = "extract"
    /\ directory = {CaFile21, ConFile21}

ExitPcs == {"return0", "return1", "extraction_error", "database_error"}

\* the script is started again: a new process, the same files and database
MainAgain ==
    /\ program = "extract" /\ main_pc \in ExitPcs
    /\ runs < MaxRuns
    /\ runs' = runs + 1
    /\ main_pc' = "start"
    /\ ca_files' = <<>> /\ con_files' = <<>> /\ file_idx' = 0
    /\ contractor_file' = None
    /\ attempt' = 0 /\ llm_calls' = 0 /\ response' = None
    /\ txn' = None /\ stmts' = <<>>
    /\ printed' = <<>>
    /\ ca_report' = EmptyRecord /\ contractor_report' = EmptyRecord
    /\ results' = <<>>
    /\ UNCHANGED <<program, pc, directory, db, ca_dwr, contractor_dwr, result,
                   classVars, pairs, all_results, summary, parseVars>>

NextRerun ==
    \/ MainDbUnavailable
    \/ MainDiscover
    \/ MainBeginPair
    \/ MainComplete
    \/ ChatRaises
    \/ InvalidJson
    \/ ValidationFails
    \/ ValidationPasses
    \/ DbBegin
    \/ DbExecute
    \/ DbCommit
    \/ DbError
    \/ MainReconcile
    \/ MainAgain

SpecRerun == InitRerun /\ [][NextRerun]_vars

\* ------------------------------------------------------------------------
\* Properties of a finished run
\* ------------------------------------------------------------------------
ExtractDone == program = "extract" /\ pc = "done"
ReconcileDone == program = "reconcile" /\ pc = "done"

Categories == {"Labour", "Equipment", "Material"}
CatRank(c) == IF c = "Labour" THEN 1 ELSE IF c = "Equipment" THEN 2 ELSE 3

RowsOf(rows, cat) == SelectSeq(rows, LAMBDA r : r.category = cat)
Matched(r) == r.status \in {"MATCH", "FLAG"}

\* the match keys of one side of a DWRReport, item by item
SideKeys(report, cat) ==
    IF cat = "Labour"
    THEN {normalize_classification(report.labour[i].classification) :
             i \in 1..Len(report.labour)}
    ELSE IF cat = "Equipment"
    THEN {equip_match_key(normalize_equip(report.equipment[i].equipment_name)) :
             i \in 1..Len(report.equipment)}
    ELSE {normalize_mat(report.materials[i]) : i \in 1..Len(report.materials)}

\* the match key an output row of extract.py stands for
RowKey(r) ==
    IF r.category = "Labour" THEN normalize_classification(r.description)
    ELSE IF r.category = "Equipment"
    THEN equip_match_key(normalize_equip(r.description))
    ELSE strip(lower(r.description))

\* C1: for each category the rows of reconcile_dwrs (extract.py) are in
\* one-to-one correspondence with the union of both sides' match keys:
\* as many rows as keys, every key on exactly one row, no row for another key.
C1_KeyUnion ==
    ExtractDone =>
        \A cat \in Categories :
            LET rows == RowsOf(results, cat)
                K == SideKeys(ca_report, cat) \cup SideKeys(contractor_report, cat)
            IN /\ Len(rows) = Cardinality(K)
               /\ \A k \in K :
                     Cardinality({i \in 1..Len(rows) : RowKey(rows[i]) = k}) = 1
               /\ \A i \in 1..Len(rows) : RowKey(rows[i]) \in K

\* a run where one key occurs twice on the CA side and once on the other
C1_Witness ==
    /\ ExtractDone
    /\ Len(ca_report.labour) = 2 /\ Len(contractor_report.labour) = 1
    /\ Cardinality(SideKeys(ca_report, "Labour")
                   \cup SideKeys(contractor_report, "Labour")) = 1
    /\ Len(RowsOf(results, "Labour")) = 1

RowStatusOk(r) ==
    /\ ~(r.ca_value = None /\ r.contractor_value = None)
    /\ r.status = "MISSING" <=> (r.contractor_value = None /\ r.ca_value # None)
    /\ r.status = "NEW" <=> (r.ca_value = None /\ r.contractor_value # None)
    /\ Matched(r) <=> (r.ca_value # None /\ r.contractor_value # None)

\* C2: every row of reconcile_dwrs (extract.py) has at least one value, is
\* MISSING exactly when only the CA value is present, NEW exactly when only
\* the Contractor value is present, MATCH or FLAG exactly when both are.
C2_StatusValues ==
    program = "extract" => \A i \in 1..Len(results) : RowStatusOk(results[i])

\* C3: in both scripts a row carries variance_pct exactly when it carries both
\* values; MISSING and NEW rows never do, MATCH and FLAG rows always do.
RowVarianceOk(r) ==
    /\ r.variance_pct # None <=> (r.ca_value # None /\ r.contractor_value # None)
    /\ r.status \in {"MISSING", "NEW"} => r.variance_pct = None
    /\ Matched(r) => r.variance_pct # None

C3_VarianceIffBoth ==
    /\ \A i \in 1..Len(results) : RowVarianceOk(results[i])
    /\ \A i \in 1..Len(result.items) : RowVarianceOk(result.items[i])

\* a finished extract.py run with a matched row and an unmatched Material
\* row whose quantity is absent
C3_Witness ==
    /\ ExtractDone
    /\ \E i \in 1..Len(results) : Matched(results[i])
    /\ \E i \in 1..Len(results) :
          /\ results[i].category = "Material"
          /\ results[i].status = "MISSING"
          /\ results[i].ca_value = None

\* the <<variance_pct, status>> pair a classifier returned
Returned == classified[1][2]

\* C4: both classifiers return (0.0, MATCH) for two zero values and
\* (100.0, FLAG) for a zero CA value against any non-zero Contractor value,
\* and never divide by a zero CA value.
C4_ZeroBaseline ==
    classified # None =>
        /\ (ca_val = 0 /\ con_val = 0) =>
               Returned = <<[num |-> 0, den |-> 1], "MATCH">>
        /\ (ca_val = 0 /\ con_val # 0) =>
               Returned = <<[num |-> 100, den |-> 1], "FLAG">>
        /\ divisor # Some(0)

\* extract.py classified a zero CA value against the largest Contractor value
C4_Witness ==
    /\ classified # None /\ classified[1][1] = "extract"
    /\ ca_val = 0 /\ con_val = MaxVal
    /\ Returned[2] = "FLAG"

\* C5: for a CA value ca > 0 both classifiers return MATCH exactly when
\* 100*|con - ca| <= 5*ca and FLAG otherwise; equal values give MATCH with
\* variance 0.0.
C5_Tolerance ==
    (classified # None /\ ca_val > 0) =>
        /\ Returned[2] \in {"MATCH", "FLAG"}
        /\ Returned[2] = "MATCH" <=> 100 * Abs(con_val - ca_val) <= 5 * ca_val
        /\ con_val = ca_val => Returned = <<[num |-> 0, den |-> 1], "MATCH">>

\* extract.py classified a deviation of exactly 5 percent
C5_Witness ==
    /\ classified # None /\ classified[1][1] = "extract"
    /\ ca_val = 20 /\ con_val = 21
    /\ Returned[2] = "MATCH"

\* the match key an output row stands for, in either script
KeyIn(prog, r) ==
    IF prog = "extract" THEN RowKey(r) ELSE normalize_description(r.description)

ParsedSideKeys(items) ==
    {normalize_description(items[i].description) : i \in 1..Len(items)}

CatKeys(prog, rows, sts) ==
    {<<rows[i].category, KeyIn(prog, rows[i])>> :
        i \in {j \in 1..Len(rows) : rows[j].status \in sts}}

\* fwd is the run as made, swp the run with the two records exchanged
SwapSymmetric(prog, fwd, swp) ==
    /\ CatKeys(prog, fwd, {"MISSING"}) = CatKeys(prog, swp, {"NEW"})
    /\ CatKeys(prog, fwd, {"NEW"}) = CatKeys(prog, swp, {"MISSING"})
    /\ CatKeys(prog, fwd, {"MATCH", "FLAG"}) = CatKeys(prog, swp, {"MATCH", "FLAG"})

\* a key of one side only is on a row of status st
OneSided(prog, rows, cat, onlyKeys, st) ==
    \A k \in onlyKeys :
        \E i \in 1..Len(rows) :
            /\ rows[i].category = cat /\ KeyIn(prog, rows[i]) = k
            /\ rows[i].status = st

\* C6: exchanging the CA and the Contractor record turns the MISSING keys
\* into the NEW keys and back and keeps the matched keys; a key of the CA
\* side only is MISSING, a key of the Contractor side only is NEW.
C6_SwapSymmetry ==
    /\ ExtractDone =>
          /\ SwapSymmetric("extract", results,
                           extract_reconcile_dwrs(contractor_report, ca_report))
          /\ \A cat \in Categories :
                LET a == SideKeys(ca_report, cat)
                    b == SideKeys(contractor_report, cat)
                IN /\ OneSided("extract", results, cat, a \ b, "MISSING")
                   /\ OneSided("extract", results, cat, b \ a, "NEW")
    /\ ReconcileDone =>
          /\ SwapSymmetric("reconcile", result.items,
                           reconcile_reconcile_dwrs(contractor_dwr, ca_dwr).items)
          /\ LET a == ParsedSideKeys(ca_dwr.labour)
                 b == ParsedSideKeys(contractor_dwr.labour)
             IN /\ OneSided("reconcile", result.items, "Labour", a \ b, "MISSING")
                /\ OneSided("reconcile", result.items, "Labour", b \ a, "NEW")
          /\ LET a == ParsedSideKeys(ca_dwr.equipment)
                 b == ParsedSideKeys(contractor_dwr.equipment)
             IN /\ OneSided("reconcile", result.items, "Equipment", a \ b, "MISSING")
                /\ OneSided("reconcile", result.items, "Equipment", b \ a, "NEW")
          /\ LET a == ParsedSideKeys(ca_dwr.materials)
                 b == ParsedSideKeys(contractor_dwr.materials)
             IN /\ OneSided("reconcile", result.items, "Material", a \ b, "MISSING")
                /\ OneSided("reconcile", result.items, "Material", b \ a, "NEW")

\* a finished extract.py run with a MISSING and a NEW row of one category,
\* whose exchanged run has them the other way round
C6_Witness ==
    /\ ExtractDone
    /\ \E i, j \in 1..Len(results) :
          /\ results[i].category = results[j].category
          /\ results[i].status = "MISSING" /\ results[j].status = "NEW"
          /\ LET swp == extract_reconcile_dwrs(contractor_report, ca_report)
             IN \E m, n \in 1..Len(swp) :
                   /\ swp[m].description = results[i].description
                   /\ swp[m].status = "NEW"
                   /\ swp[n].description = results[j].description
                   /\ swp[n].status = "MISSING"

\* C7: the list of extract.py reconcile_dwrs is category-major (Labour,
\* Equipment, Material) and inside a category in ascending order of match key.
C7_Ordered ==
    ExtractDone =>
        \A i, j \in 1..Len(results) :
            i < j =>
                \/ CatRank(results[i].category) < CatRank(results[j].category)
                \/ /\ results[i].category = results[j].category
                   /\ StrLess(RowKey(results[i]), RowKey(results[j]))

\* the CA labour list is in descending key order and another category has a row
C7_Witness ==
    /\ ExtractDone
    /\ Len(ca_report.labour) = 2
    /\ StrLess(normalize_classification(ca_report.labour[2].classification),
               normalize_classification(ca_report.labour[1].classification))
    /\ Len(RowsOf(results, "Labour")) = 2
    /\ \E i \in 1..Len(results) : results[i].category # "Labour"

\* the rearrangements of a list
Rearrangements(items) ==
    {[i \in 1..Len(items) |-> items[f[i]]] : f \in Permutations(1..Len(items))}

NoCollision(items) == Cardinality(ParsedSideKeys(items)) = Len(items)

KeySorted(prog, rows) ==
    \A i, j \in 1..Len(rows) :
        i < j => StrLess(KeyIn(prog, rows[i]), KeyIn(prog, rows[j]))

\* C8: match_items (reconcile.py) emits its rows in ascending order of the
\* normalized key, so without same-side key collisions every rearrangement of
\* ca_items or of contractor_items gives the same list in the same order.
C8_SortedOutput ==
    ReconcileDone =>
        /\ \A cat \in Categories : KeySorted("reconcile", RowsOf(result.items, cat))
        /\ (NoCollision(ca_dwr.labour) /\ NoCollision(contractor_dwr.labour)) =>
              /\ \A a \in Rearrangements(ca_dwr.labour) :
                    match_items(a, contractor_dwr.labour)
                        = RowsOf(result.items, "Labour")
              /\ \A b \in Rearrangements(contractor_dwr.labour) :
                    match_items(ca_dwr.labour, b)
                        = RowsOf(result.items, "Labour")

HasClassification(labour, name) ==
    \E i \in 1..Len(labour) : labour[i].classification = name

\* C9: with "Driver / Teamster" on the CA side and "Driver/Teamster" on the
\* Contractor side, reconcile_dwrs (extract.py) gives one matched row for the
\* two and no MISSING or NEW row for either.
C9_SlashCollides ==
    (/\ ExtractDone
     /\ HasClassification(ca_report.labour, DriverSpaced)
     /\ HasClassification(contractor_report.labour, DriverTight)) =>
        LET rows == SelectSeq(RowsOf(results, "Labour"),
                        LAMBDA r : r.description \in {DriverSpaced, DriverTight})
        IN Len(rows) = 1 /\ Matched(rows[1])

\* the characters of a name that survive upper-casing and the removal of
\* everything but A-Z, 0-9 and space
Cleaned(name) ==
    SelectSeq(upper(name), LAMBDA c : IsUpper(c) \/ IsDigit(c) \/ c = " ")

\* the positions where a space-delimited token of c starts, and where the
\* token starting at i ends
TokenStarts(c) ==
    {i \in 1..Len(c) : c[i] # " " /\ (i = 1 \/ c[i - 1] = " ")}
TokenEnd(c, i) ==
    CHOOSE j \in i..Len(c) :
        /\ \A k \in i..j : c[k] # " "
        /\ (j = Len(c) \/ c[j + 1] = " ")
TokenAt(c, i) == SubSeq(c, i, TokenEnd(c, i))
Least(S) == CHOOSE x \in S : \A y \in S : x <= y

\* the equipment match key as the claim words it
StatedEquipKey(name) ==
    LET c == Cleaned(name)
        S == TokenStarts(c)
    IN IF S = {} THEN <<>>
       ELSE LET first == TokenAt(c, Least(S))
            IN IF (\A k \in 1..Len(first) : IsDigit(first[k])) /\ Cardinality(S) >= 2
               THEN first \o <<" ">> \o TokenAt(c, Least(S \ {Least(S)}))
               ELSE first

EquipNames(report) ==
    {report.equipment[i].equipment_name : i \in 1..Len(report.equipment)}

NamesWithKey(report, k) ==
    {n \in EquipNames(report) : equip_match_key(normalize_equip(n)) = k}

\* C11: a matched Equipment row of reconcile_dwrs (extract.py) is described
\* by one of the two sides' names for its key; where each side has one name
\* for the key it is the longer of the two, and the CA name when they are
\* equally long.
C11_DisplayName ==
    ExtractDone =>
        \A i \in 1..Len(results) :
            (results[i].category = "Equipment" /\ Matched(results[i])) =>
                LET d == results[i].description
                    caN == NamesWithKey(ca_report, RowKey(results[i]))
                    conN == NamesWithKey(contractor_report, RowKey(results[i]))
                IN /\ d \in caN \cup conN
                   /\ (Cardinality(caN) = 1 /\ Cardinality(conN) = 1) =>
                         \A a \in caN : \A b \in conN :
                             /\ Len(d) >= Len(a) /\ Len(d) >= Len(b)
                             /\ Len(a) = Len(b) => d = a

\* "94 INTL" on the CA side against the equally long "94 intl" keeps the CA
\* name
C11_Witness ==
    /\ ExtractDone
    /\ EquipNames(ca_report) = {IntlShort}
    /\ EquipNames(contractor_report) = {IntlLower}
    /\ \E i \in 1..Len(results) :
          results[i].description = IntlShort /\ Matched(results[i])

\* lowercase, trim, collapse internal whitespace runs to one space
GenericNormal(desc) == CollapseSpace(strip(lower(desc)))

\* C12: in the Material pass of reconcile_dwrs (extract.py) a CA and a
\* Contractor description that differ only in letter case, in surrounding
\* whitespace or in the length of internal whitespace runs have the same key
\* and are reconciled as one matched row.
C12_MaterialKeys ==
    ExtractDone =>
        \A i \in 1..Len(ca_report.materials) :
            \A j \in 1..Len(contractor_report.materials) :
                LET a == ca_report.materials[i]
                    b == contractor_report.materials[j]
                IN GenericNormal(MatDesc(a)) = GenericNormal(MatDesc(b)) =>
                      /\ normalize_mat(a) = normalize_mat(b)
                      /\ \E n \in 1..Len(results) :
                            /\ results[n].category = "Material"
                            /\ RowKey(results[n]) = normalize_mat(a)
                            /\ Matched(results[n])

\* C13: the header of reconcile_dwrs (reconcile.py) has change_order and
\* work_date from the CA record when the CA record has a non-empty one and
\* from the Contractor record otherwise; ca_record_id and ca_created_by are
\* the CA record's, contractor_record_id and contractor_created_by the
\* Contractor record's.
C13_HeaderPreference ==
    ReconcileDone =>
        /\ ca_dwr.change_order # "" => result.change_order = ca_dwr.change_order
        /\ ca_dwr.change_order = "" =>
               result.change_order = contractor_dwr.change_order
        /\ ca_dwr.dwr_date # "" => result.work_date = ca_dwr.dwr_date
        /\ ca_dwr.dwr_date = "" => result.work_date = contractor_dwr.dwr_date
        /\ result.ca_record_id = ca_dwr.record_id
        /\ result.ca_created_by = ca_dwr.created_by
        /\ result.contractor_record_id = contractor_dwr.record_id
        /\ result.contractor_created_by = contractor_dwr.created_by

\* both records are dated and only the Contractor record names a change order
C13_Witness ==
    /\ ReconcileDone
    /\ ca_dwr.change_order = "" /\ contractor_dwr.change_order = "CO-7"
    /\ ca_dwr.dwr_date = "2021-08-05" /\ contractor_dwr.dwr_date = "2021-08-06"
    /\ result.change_order = "CO-7" /\ result.work_date = "2021-08-05"
    /\ result.ca_record_id = "DWR-7" /\ result.contractor_record_id = "DWR-9"

\* the answer is the JSON of a dict that validates
IsValidAnswer(r) == r.kind = "json" /\ SchemaValid(r.data[1])

\* the report the last call of extract_dwr_with_llm returned to main
ReturnedReport == IF main_pc = "save_con" THEN contractor_report ELSE ca_report

\* C14: one call of extract_dwr_with_llm calls the model at most 3 times; while
\* it is still running every answer so far has failed (one call per attempt),
\* so it stops at the first answer that parses and validates; and the report
\* it returned is the one built from a validated answer.
C14_AtMostThreeCalls ==
    /\ llm_calls <= 3
    /\ main_pc \in ExtractPcs =>
          /\ llm_calls = attempt
          /\ response # None => ~IsValidAnswer(response[1])
    /\ main_pc \in SaveDwrPcs =>
          /\ response # None /\ IsValidAnswer(response[1])
          /\ ReturnedReport = DWRReport(response[1].data[1])

\* the Contractor report was returned by the third call, after two failures
C14_Witness ==
    /\ main_pc = "save_con"
    /\ llm_calls = 3
    /\ contractor_report = DWRReport(DataNine)

\* a step of a running extraction ends the call or starts the next attempt
AttemptAdvances ==
    main_pc \in ExtractPcs =>
        (main_pc' \notin ExtractPcs \/ attempt' = attempt + 1)

\* C15: extract_dwr_with_llm always terminates: while it runs it can take a
\* step, and each step either ends the call or starts the next of at most 3
\* attempts; it raises its terminal error only when the third attempt has
\* failed, after exactly 3 calls, never while fewer than 3 have been made.
C15_TerminalError ==
    /\ [](main_pc = "extraction_error" =>
            /\ llm_calls = 3 /\ attempt = 2
            /\ ~IsValidAnswer(response[1]))
    /\ [](main_pc \in ExtractPcs =>
            /\ attempt < 3 /\ llm_calls = attempt
            /\ ENABLED NextMain)
    /\ [][AttemptAdvances]_vars

\* the Contractor extraction failed for the third time, on invalid data
C15_Witness ==
    /\ main_pc = "extraction_error"
    /\ llm_calls = 3
    /\ response = Some(JsonOf(DataTooManyHours))
    /\ \E i \in 1..Len(printed) : printed[i][1] = "saved"

ItemTableNames == {"labour_items", "equipment_items", "material_items"}

\* the line items stored in table t for record id rid, in row order
ItemsFor(d, t, rid) ==
    LET rows == SelectSeq(d[t], LAMBDA r : r.dwr_record_id = rid)
    IN [i \in 1..Len(rows) |-> rows[i].item]

\* the record ids the line-item tables mention
ItemRecordIds(d) ==
    UNION {{d[t][i].dwr_record_id : i \in 1..Len(d[t])} : t \in ItemTableNames}

\* a call of save_dwr returns normally in this step
SaveReturns ==
    main_pc \in SaveDwrPcs /\ main_pc' \notin SaveDwrPcs \cup {"database_error"}

\* a successful save stores exactly the report's items under its record id
\* and keeps the stored items of every other record id; nothing else writes
\* the line-item tables
SaveReplaces ==
    /\ (\E t \in ItemTableNames : db'[t] # db[t]) => SaveReturns
    /\ SaveReturns =>
          LET rid == ReturnedReport.header.record_id
          IN /\ ItemsFor(db', "labour_items", rid) = ReturnedReport.labour
             /\ ItemsFor(db', "equipment_items", rid) = ReturnedReport.equipment
             /\ ItemsFor(db', "material_items", rid) = ReturnedReport.materials
             /\ \A other \in ItemRecordIds(db) \ {rid} :
                   \A t \in ItemTableNames :
                       ItemsFor(db', t, other) = ItemsFor(db, t, other)

\* C16: after any sequence of successful save_dwr calls the labour, equipment
\* and material rows stored for a record_id are exactly the line items of the
\* report last saved under it (a re-save replaces, never appends), and a save
\* for one record_id leaves the rows of every other record_id unchanged.
C16_ResaveReplaces == [][SaveReplaces]_vars

\* the Contractor report was saved under the record id of the CA report saved
\* just before: only the Contractor items are stored
C16_Witness ==
    /\ main_pc = "reconcile"
    /\ ca_report = DWRReport(DataSevenAgain)
    /\ contractor_report = DWRReport(DataSeven)
    /\ db.labour_items = <<ItemRow("DWR-7", LabourLineItem(ForemanName, 20))>>
    /\ db.equipment_items = <<>>
    /\ Len(db.dwr_headers) = 1

\* while save_dwr runs nothing it writes is visible; it ends either by
\* raising with the tables as they were, or by committing all its statements
SaveIsAtomic ==
    main_pc \in SaveDwrPcs =>
        /\ main_pc' = main_pc => db' = db
        /\ main_pc' = "database_error" => db' = db
        /\ (txn # None /\ txn' = None /\ stmts # <<>>) =>
              main_pc' = "database_error"
        /\ main_pc' \notin {main_pc, "database_error"} =>
              txn # None /\ stmts = <<>> /\ db' = txn[1]

\* C17: if save_dwr fails with a database error at any step, the error is
\* raised to the caller and the database is left exactly as before the call:
\* no header replaced, no old line item deleted, no new line item visible.
C17_FailedSaveKeepsDb == [][SaveIsAtomic]_vars

\* the save of the Contractor report failed after the CA report was stored
C17_Witness ==
    /\ main_pc = "database_error"
    /\ ca_report = DWRReport(DataSevenAgain)
    /\ contractor_report = DWRReport(DataSeven)
    /\ db.labour_items = <<ItemRow("DWR-7", LabourLineItem(ForemanName, 21))>>
    /\ Len(db.equipment_items) = 1
    /\ Len(db.dwr_headers) = 1

\* a log line was printed
Printed(msg) == \E i \in 1..Len(printed) : printed[i][1] = msg

\* main computed a reconciliation in this run
RanReconciliation ==
    IF program = "extract"
    THEN Printed("reconciliation saved") \/ Printed("failed to save reconciliation")
    ELSE Len(all_results) >= 1

\* C18: both entry points return non-zero whenever no CA/Contractor pair
\* could be located or paired, also when CA or Contractor files exist but no
\* CA file has a counterpart, and return 0 only when at least one
\* reconciliation ran.
C18_ExitCodes ==
    main_pc = "return0" => RanReconciliation

\* the CA file has no change-order key, or no Contractor file carries its key
NoCounterpart(ca_file) ==
    \/ co_match(ca_file) = None
    \/ \A i \in 1..Len(con_files) : co_match(con_files[i]) # co_match(ca_file)

\* the step reports the CA file and goes on to the next one, with no model
\* call, no database write and no reconciliation
ReportedAndSkipped ==
    /\ \E msg \in {"cannot determine CO", "no contractor match"} :
          printed' = Append(printed, <<msg, file_idx>>)
    /\ main_pc' = "loop"
    /\ file_idx' = file_idx + 1
    /\ llm_calls' = llm_calls
    /\ UNCHANGED <<dbVars, reportVars>>

SkipsUnpaired == (InLoop /\ NoCounterpart(CurrentCa)) => ReportedAndSkipped

\* C19: in extract.py main, a CA file without a change-order key or without a
\* Contractor counterpart is reported and skipped (no extraction, no database
\* write, no reconciliation), and the loop goes on to the next CA file.
C19_SkipUnpaired == [][SkipsUnpaired]_vars

\* the report is the one built from an answer that validates
Validated(report) == \E d \in DataPool : SchemaValid(d) /\ report = DWRReport(d)

\* a record of this id is stored
Stored(record_id) ==
    \E i \in 1..Len(db.dwr_headers) : db.dwr_headers[i].record_id = record_id

\* the saves that returned for the current CA file
SavesOfPair == {i \in 1..Len(printed) : printed[i] = <<"saved", file_idx>>}

ReconcilePcs == {"reconcile", "save_recon"}

\* main is reconciling a pair: both reports were validated and saved
PairReady ==
    main_pc \in ReconcilePcs =>
        /\ Validated(ca_report) /\ Validated(contractor_report)
        /\ Cardinality(SavesOfPair) = 2
        /\ Stored(ca_report.header.record_id)
        /\ Stored(contractor_report.header.record_id)

\* a reconciliation is computed or stored only while main reconciles a pair
ReconcilesOnlyWhenReady ==
    (results' # results \/ db'.reconciliation # db.reconciliation) =>
        main_pc \in ReconcilePcs

\* the extraction failed for good: main is over, nothing is stored for the pair
HardStop ==
    main_pc = "extraction_error" =>
        /\ ~ENABLED NextMain
        /\ file_idx <= Len(ca_files) =>
              \A i \in 1..Len(db.reconciliation) :
                  db.reconciliation[i].change_order # co_match(CurrentCa)[1]

\* C20: in extract.py main, reconciliation rows of a pair are written only
\* after both records of the pair were extracted with a validated result and
\* saved; when the extraction of either record fails for good, no
\* reconciliation is computed and no row is written for that pair.
C20_ReconcileAfterBoth ==
    /\ []PairReady
    /\ [][ReconcilesOnlyWhenReady]_vars
    /\ []HardStop

\* the second pair's extraction failed for good after the first pair's rows
\* were stored
C20_Witness ==
    /\ main_pc = "extraction_error"
    /\ file_idx = 2
    /\ db.reconciliation # <<>>

\* the section name, the least number of cells and the numeric column of the
\* table parser that ran
SectionOf(p) ==
    IF p = "labour" THEN LabourSection
    ELSE IF p = "equipment" THEN EquipmentSection
    ELSE MaterialSection
MinCells(p) == IF p = "labour" THEN 6 ELSE 4
NumericColumn(p) == IF p = "labour" THEN 6 ELSE 4

\* a separator line of a table
IsSeparator(line) ==
    \A i \in 1..Len(line) : line[i] \in {"|", "-", ":", " "}

\* the rows of the section's table: the cells of the table lines between the
\* section's heading and the next heading, the separator and the rows that
\* begin with a header label left out
TableRows(doc, p) ==
    LET hs == {i \in 1..Len(doc) : HeadingOf(doc[i], SectionOf(p))}
        h == CHOOSE i \in hs : \A j \in hs : i <= j
        es == {i \in (h + 1)..Len(doc) : startswith(doc[i], <<"#", "#">>)}
        e == IF es = {} THEN Len(doc) + 1
             ELSE CHOOSE i \in es : \A j \in es : i <= j
        lines == SelectSeq(SubSeq(doc, h + 1, e - 1),
                     LAMBDA l : /\ startswith(l, <<"|">>)
                                /\ ~IsSeparator(l)
                                /\ CellsOf(l)[1] \notin HeaderLabels)
    IN IF hs = {} THEN <<>> ELSE [i \in 1..Len(lines) |-> CellsOf(lines[i])]

\* the numeric cell is empty or a number
WellFormed(row, p) ==
    /\ Len(row) >= MinCells(p)
    /\ row[NumericColumn(p)] # <<>> => float(row[NumericColumn(p)]) # None

ItemOf(row, p) ==
    LET v == IF row[NumericColumn(p)] = <<>> THEN Frac(0, 1)
             ELSE float(row[NumericColumn(p)])[1]
    IN IF p = "labour" THEN ParsedLineItem("Labour", row[1], v, "man-hours")
       ELSE IF p = "equipment" THEN ParsedLineItem("Equipment", row[1], v, "hours")
       ELSE ParsedLineItem("Material", full_desc(row[1], row[2]), v, row[3])

\* C21: a table parser of reconcile.py returns, in order, exactly the line
\* items of the well-formed rows of its section: a row whose numeric cell is
\* non-empty and not a number yields no item and no error, every other
\* well-formed row yields its item, and a row that begins with a header label
\* yields none.
C21_SkipsBadRows ==
    parsed # None =>
        LET rows == SelectSeq(TableRows(content, parser),
                              LAMBDA row : WellFormed(row, parser))
        IN parsed[1] = [i \in 1..Len(rows) |-> ItemOf(rows[i], parser)]

\* the rows built so far
RowsSoFar == IF program = "extract" THEN results ELSE result.items

\* the classifier divided by the CA value of the matched row
RowDivides(r) ==
    IF program = "extract"
    THEN calc_variance_divides(r.ca_value[1], r.contractor_value[1])
    ELSE calculate_variance_divides(r.ca_value[1], r.contractor_value[1])

\* the number of passes of extract.py reconcile_dwrs that have returned
PassesDone ==
    IF pc = "start" THEN 0 ELSE IF pc = "labour" THEN 1
    ELSE IF pc = "equipment" THEN 2 ELSE 3

\* the number of match keys of the category over both records
KeyCount(cat) ==
    IF program = "extract"
    THEN Cardinality(SideKeys(ca_report, cat) \cup SideKeys(contractor_report, cat))
    ELSE LET f == IF cat = "Labour" THEN "labour"
                  ELSE IF cat = "Equipment" THEN "equipment" ELSE "materials"
         IN Cardinality(ParsedSideKeys(ca_dwr[f])
                        \cup ParsedSideKeys(contractor_dwr[f]))

\* C22: reconcile_dwrs is total over schema-valid records: from every pair of
\* records (empty lists, same-side duplicate keys, zero values and absent
\* Material quantities included) every pass that has run returned its rows,
\* one per match key, the finished run returns the rows of all three
\* categories, and no matched row was classified by dividing by a zero CA
\* value.
C22_Total ==
    /\ pc \in {"start", "labour", "equipment", "done"}
    /\ \A cat \in Categories :
          Len(RowsOf(RowsSoFar, cat)) =
              IF pc = "done" \/ (program = "extract" /\ CatRank(cat) <= PassesDone)
              THEN KeyCount(cat) ELSE 0
    /\ \A i \in 1..Len(RowsSoFar) :
          (Matched(RowsSoFar[i]) /\ RowDivides(RowsSoFar[i]))
              => RowsSoFar[i].ca_value[1] # 0

\* a zero CA value was classified against 20 hours, the CA record holding two
\* items of one key and no equipment
C22_Witness ==
    /\ ExtractDone
    /\ Len(ca_report.labour) = 2 /\ ca_report.equipment = <<>>
    /\ Len(results) = 1
    /\ results[1].ca_value = Some(0) /\ results[1].contractor_value = Some(20)
    /\ results[1].status = "FLAG"

\* the items of a category of a DWRReport and the match key of one of them
ItemsOf(report, cat) ==
    IF cat = "Labour" THEN report.labour
    ELSE IF cat = "Equipment" THEN report.equipment ELSE report.materials
ItemKey(item, cat) ==
    IF cat = "Labour" THEN normalize_classification(item.classification)
    ELSE IF cat = "Equipment"
    THEN equip_match_key(normalize_equip(item.equipment_name))
    ELSE normalize_mat(item)

\* the value of a side on the row of an item, None when no item has the key
ValueOnRow(item, cat, matched) ==
    IF cat = "Labour" THEN Some(item.total_man_hours)
    ELSE IF cat = "Equipment" THEN Some(item.hours_worked)
    ELSE IF matched THEN Some(QuantityOr0(item)) ELSE item.quantity

\* the value of the last item of the report that has the key of the row
LastValue(report, r) ==
    LET items == ItemsOf(report, r.category)
        at == {i \in 1..Len(items) : ItemKey(items[i], r.category) = RowKey(r)}
        last == CHOOSE i \in at : \A j \in at : j <= i
    IN IF at = {} THEN None
       ELSE ValueOnRow(items[last], r.category, Matched(r))

\* C23: when several items of one side share a match key, the row of that key
\* carries the value of the item that comes last in that side's input list,
\* in every category (Equipment with its two-stage lookup included).
C23_LastWins ==
    ExtractDone =>
        \A i \in 1..Len(results) :
            /\ results[i].ca_value = LastValue(ca_report, results[i])
            /\ results[i].contractor_value = LastValue(contractor_report, results[i])

\* C24: for a non-zero CA value calc_variance returns the percentage deviation
\* rounded to one decimal place, and its status is FLAG exactly when the
\* returned (rounded) variance_pct is greater than 5.0: no FLAG with a returned
\* variance of 5.0 or less, no MATCH with a returned variance above 5.0.
C24_StatusOfRounded ==
    (classified # None /\ classified[1][1] = "extract" /\ ca_val # 0) =>
        /\ Returned[1] = Round1(Abs(con_val - ca_val) * 100, ca_val)
        /\ Returned[2] = IF Returned[1].num > 5 * Returned[1].den
                         THEN "FLAG" ELSE "MATCH"

\* what each classifier returns for the values classified, the one that ran
\* as the state holds it
OfExtract ==
    IF classified[1][1] = "extract" THEN Returned ELSE calc_variance(ca_val, con_val)
OfReconcile ==
    IF classified[1][1] = "reconcile" THEN Returned
    ELSE calculate_variance(ca_val, con_val)

\* C25: for all non-negative values the two classifiers return the same
\* status; the variance_pct of extract.py is never negative and is the
\* magnitude of the variance_pct of reconcile.py rounded to one decimal place;
\* the variance_pct of reconcile.py is negative exactly when the Contractor
\* value is below a non-zero CA value.
C25_SignAndRounding ==
    classified # None =>
        /\ OfExtract[2] = OfReconcile[2]
        /\ OfExtract[1].num >= 0
        /\ OfExtract[1] = Round1(Abs(OfReconcile[1].num), OfReconcile[1].den)
        /\ OfReconcile[1].num < 0 <=> (ca_val # 0 /\ con_val < ca_val)

\* reconcile.py classified 19 against 20: minus five percent, a MATCH
C25_Witness ==
    /\ classified = Some(<<"reconcile", <<[num |-> -5, den |-> 1], "MATCH">>>>)
    /\ ca_val = 20 /\ con_val = 19

\* extract.py main is at work on a pair
PairPcs ==
    (ExtractPcs \cup SavePcs \cup ReconcilePcs) \ {"extract_single", "save_single"}

\* C26: every pair that is processed, by the loop of extract.py main and by
\* reconcile.py find_dwr_pairs, is a CA file and a Contractor file of the
\* identical change-order identifier CO-<digits>; CO-2 is never paired with
\* CO-21.
C26_SameIdentifier ==
    /\ (program = "extract" /\ main_pc \in PairPcs) =>
          change_order_of(contractor_file[1]) = change_order_of(CurrentCa)
    /\ program = "reconcile" =>
          \A i \in 1..Len(pairs) :
              change_order_of(pairs[i][2]) = change_order_of(pairs[i][1])

\* the rows the reconciliation table holds for a change-order key
RowsOfKey(key) ==
    SelectSeq(db.reconciliation, LAMBDA row : row.change_order = key)

\* C27: after any number of runs of extract.py main over one pair, the
\* reconciliation table holds the rows of the pair once: a run that stored its
\* reconciliation leaves, for the pair's key, exactly the rows it computed,
\* the rows of earlier runs replaced.
C27_RerunReplaces ==
    (main_pc = "return0" /\ Printed("reconciliation saved")) =>
        RowsOfKey(co_match(ca_files[1])[1]) =
            [i \in 1..Len(results) |->
                ReconciliationRow(co_match(ca_files[1])[1], ca_report,
                                  contractor_report, results[i])]

\* no two rows of dwr_headers have the same record_id
HeaderPerRecord(d) ==
    \A i, j \in 1..Len(d.dwr_headers) :
        d.dwr_headers[i].record_id = d.dwr_headers[j].record_id => i = j

\* every line-item row points at a row of dwr_headers
ItemsHaveHeader(d) ==
    \A t \in 1..Len(ItemTables) :
        \A i \in 1..Len(d[ItemTables[t]]) :
            \E h \in 1..Len(d.dwr_headers) :
                d.dwr_headers[h].record_id = d[ItemTables[t]][i].dwr_record_id

\* C28: after any sequence of save_dwr calls, committed or failed, over
\* repeated or distinct record ids, dwr_headers has at most one row per
\* record_id and every row of labour_items, equipment_items and
\* material_items refers to a record_id present in dwr_headers; this holds of
\* the stored tables and of the tables inside an open transaction.
C28_HeadersAndItems ==
    /\ HeaderPerRecord(db) /\ ItemsHaveHeader(db)
    /\ txn # None => HeaderPerRecord(txn[1]) /\ ItemsHaveHeader(txn[1])

\* both records of a pair were saved under one record id: the second save
\* replaced the header and the line items of the first
C28_Witness ==
    /\ program = "extract" /\ main_pc = "reconcile"
    /\ ca_report.header.record_id = contractor_report.header.record_id
    /\ ca_report.labour # contractor_report.labour
    /\ Len(db.dwr_headers) = 1
    /\ db.dwr_headers[1].source_type = "Contractor"
    /\ Len(db.labour_items) = 1
    /\ db.labour_items[1].item = contractor_report.labour[1]

\* the four status counts of a result add up to the number of its items
CountsPartition(r) ==
    matches_count(r) + flags_count(r) + new_count(r) + missing_count(r)
        = Len(r.items)

\* the number of reconciliation items over all processed pairs
TotalItems(rs) == sum([i \in 1..Len(rs) |-> Len(rs[i].items)])

\* C29: in reconcile.py the four status counts of every ReconciliationResult
\* partition its items, and the "Total line items" figure of main's overall
\* summary is the number of reconciliation items over all processed pairs,
\* MISSING items included.
C29_CountsAndTotal ==
    /\ \A i \in 1..Len(all_results) : CountsPartition(all_results[i])
    /\ summary # None =>
          summary[1].total_line_items = TotalItems(all_results)

\* the classifications and the equipment names of the two records
ClassificationsOf(ca, con) ==
    { ca.labour[i].classification : i \in 1..Len(ca.labour) }
        \cup { con.labour[i].classification : i \in 1..Len(con.labour) }

EquipmentNamesOf(ca, con) ==
    { ca.equipment[i].equipment_name : i \in 1..Len(ca.equipment) }
        \cup { con.equipment[i].equipment_name : i \in 1..Len(con.equipment) }

ClassificationIdempotent(name) ==
    normalize_classification(normalize_classification(name))
        = normalize_classification(name)

EquipIdempotent(name) ==
    normalize_equip(normalize_equip(name)) = normalize_equip(name)

MatchKeyIdempotent(name) ==
    equip_match_key(equip_match_key(name)) = equip_match_key(name)

\* C30: each normalizer of extract.py reconcile_dwrs is idempotent: for every
\* classification and every equipment name of the two records, applying
\* normalize_classification, normalize_equip or equip_match_key to its own
\* output gives that output again.
C30_Idempotent ==
    program = "extract" =>
        /\ \A name \in ClassificationsOf(ca_report, contractor_report) :
              ClassificationIdempotent(name)
        /\ \A name \in EquipmentNamesOf(ca_report, contractor_report) :
              EquipIdempotent(name) /\ MatchKeyIdempotent(name)

====
